---- MODULE Spec2Model ----
(***************************************************************************)
(* DeepSeaGuard Insight Engine (microservices/insight-engine).             *)
(*                                                                         *)
(* The store (tables telemetry, zones, auv_status, alerts), the threshold  *)
(* evaluator, the alert writer, the zone detector, the telemetry pipeline  *)
(* of monitor_telemetry.process_telemetry and the ConnectionManager hub.   *)
(*                                                                         *)
(* Conventions.  Python None / SQL NULL of a string-valued field is the    *)
(* string None; of a dict-valued result it is NoDict (the empty function); *)
(* of a row id it is NoTid (row ids start at 1).  A Python dict is a       *)
(* function whose DOMAIN is its key set.  Floats are scaled by 100 and     *)
(* kept as integers (2.5 degrees is 250, turbidity 0.05 is 5).  A JSON     *)
(* scalar read from a frame is Num(n) or Text(s), so that a value that is  *)
(* not a number is a value the model can hold.                             *)
(***************************************************************************)
EXTENDS Integers, Sequences, FiniteSets, TLC

VARIABLES
    \* ---- the store (committed state)
    telemetry,           \* table telemetry: sequence of rows, in id order
    zones,               \* table zones: zone_id -> [geom]
    auv_status,          \* table auv_status: auv_id -> last_seen
    alerts,              \* table alerts: sequence of rows, in insertion order
    alert_seq,           \* the alerts.id sequence (last value handed out)
    now,                 \* the clock (store now() and datetime.now())
    \* ---- callers of the alert writer
    wcall,               \* the last committed alert-writer call and its result
    sess,                \* overlapping write sessions: id -> session state
    \* ---- threshold evaluator
    cur,                 \* the telemetry dict being processed
    report,              \* the result of check_thresholds for cur
    \* ---- zone detector
    dz,                  \* locals and position of detect_zone_violation
    \* ---- process_telemetry (the upstream task)
    pc,                  \* position of the upstream task
    tid,                 \* telemetry id of the current record (NoTid = None)
    nrec,                \* number of frames read so far
    steps,               \* what process_telemetry has done for the current record
    failed,              \* failures met while processing the current record
    \* ---- ConnectionManager
    active_connections,  \* list of websockets
    client_state,        \* websocket -> CONNECTING | CONNECTED | DISCONNECTED
    inbox,               \* websocket -> the frames the client received, in order
    lock,                \* holder of ConnectionManager._lock, or None
    bc,                  \* task -> locals of its running broadcast
    acquired,            \* history: the events, in the order their broadcasts took the lock
    \* ---- background tasks
    scan,                \* position and locals of the dead-vehicle scanner
    sleep,               \* task -> seconds left of its asyncio.sleep
    \* ---- the service
    app,                 \* lifespan: "serving", or "shutdown" once the shutdown code ran
    req,                 \* the last GET /insights request
    resp                 \* the response it was given

dbVars   == <<telemetry, zones, auv_status, alerts, alert_seq, now>>
callVars == <<wcall, sess>>
envVars  == <<cur, report>>
upVars   == <<pc, tid, nrec, steps, failed>>
hubVars  == <<active_connections, client_state, inbox, lock, bc, acquired>>
taskVars == <<scan, sleep>>
svcVars  == <<app, req, resp>>
vars     == <<dbVars, callVars, envVars, dz, upVars, hubVars, taskVars, svcVars>>

None   == "None"
NoDict == <<>>
NoTid  == 0

Num(n)  == [num |-> n]
Text(s) == [text |-> s]
IsNumber(v) == "num" \in DOMAIN v

\* What json.loads gives for a frame that is valid JSON but not an object: an
\* array, a number.  An object is a record of its keys.
JsonArray  == [array |-> <<Num(1), Num(2)>>]
JsonNumber == Num(42)
IsObject(j) == DOMAIN j \cap {"num", "text", "array"} = {}

\* dict.get(key): the value, or None of the field's type when the key is absent
Get(d, key, default) == IF key \in DOMAIN d THEN d[key] ELSE default

\* --------------------------------------------------------------- bounds
MaxTime    == 1     \* the clock runs 0..MaxTime
MaxAlerts  == 3     \* alert-writer calls in one run of the writer specifications
MaxRecords == 2     \* frames read from the upstream feed in one run
MaxPoints  == 2     \* points inserted in one run of the zone specification
MaxBroadcasts == 3  \* events published in one run of the hub specification
MaxTicks   == 2     \* scan ticks started in one run of the scanner specification

\* ------------------------------------------------------- configuration
\* app/config/thresholds.py, scaled by 100
ENVIRONMENTAL_THRESHOLDS ==
    [temperature_c |-> [warning  |-> [min |-> 150, max |-> 250],
                        critical |-> [min |-> 100, max |-> 300]],
     turbidity     |-> [warning  |-> [min |-> 5,   max |-> 25],
                        critical |-> [min |-> 0,   max |-> 30]]]

\* DEAD_AUV_TIMEOUT_SECONDS is read from the environment; any positive value
DEAD_AUV_TIMEOUT_SECONDS == 1
\* DEAD_AUV_SCAN_INTERVAL_SECONDS, read from the environment.
DEAD_AUV_SCAN_INTERVAL_SECONDS == 2
\* reconnect_delay of monitor_telemetry.
reconnect_delay == 5

AUVs    == {"AUV-1", "AUV-2"}
ZoneIds == {"Z1", "Z2"}
ALERT_TYPES == {"environmental", "zone_violation", "dead_auv"}

\* ---------------------------------------------------- threshold evaluator
\* One parameter of EnvironmentalMonitor.check_thresholds: the list of
\* violations (empty or one entry) it appends for `key`, reported as `name`.
ParamAlerts(telemetry_, key, name) ==
    IF key \notin DOMAIN telemetry_ THEN <<>>
    ELSE LET v  == telemetry_[key].num
             th == ENVIRONMENTAL_THRESHOLDS[key]
         IN  IF v < th.critical.min \/ v > th.critical.max
             THEN << [parameter |-> name, value |-> v,
                      threshold_type |-> "critical", limits |-> th.critical] >>
             ELSE IF v < th.warning.min \/ v > th.warning.max
             THEN << [parameter |-> name, value |-> v,
                      threshold_type |-> "warning", limits |-> th.warning] >>
             ELSE <<>>

\* check_thresholds raises (TypeError) when a present value is not a number:
\* the comparison temp < min fails.
ThresholdsRaise(telemetry_) ==
    \/ IsNumber(telemetry_)     \* `"temperature_c" in 42`: not iterable
    \/ "temperature_c" \in DOMAIN telemetry_ /\ ~IsNumber(telemetry_.temperature_c)
    \/ "turbidity" \in DOMAIN telemetry_ /\ ~IsNumber(telemetry_.turbidity)

\* The mutated evaluator: turbidity chained to temperature with elif, so it is
\* looked at only when temperature raised nothing.
check_thresholds_elif(telemetry_, clock) ==
    LET t == ParamAlerts(telemetry_, "temperature_c", "temperature")
        found == IF t # <<>> THEN t ELSE ParamAlerts(telemetry_, "turbidity", "turbidity")
    IN  IF found # <<>>
        THEN [timestamp |-> clock, auv_id |-> Get(telemetry_, "auv_id", None),
              alerts |-> found]
        ELSE NoDict

\* EnvironmentalMonitor.check_thresholds for a record whose present values are
\* numbers: the report, or NoDict (None).
check_thresholds(telemetry_, clock) ==
    LET found == ParamAlerts(telemetry_, "temperature_c", "temperature")
                 \o ParamAlerts(telemetry_, "turbidity", "turbidity")
    IN  IF found # <<>>
        THEN [timestamp |-> clock, auv_id |-> Get(telemetry_, "auv_id", None),
              alerts |-> found]
        ELSE NoDict

\* ------------------------------------------------------------ alert writer
\* _derive_severity: overall severity of a list of parameter alerts.  It reads
\* the key "severity" of each entry.
_derive_severity(alerts_) ==
    IF \E i \in 1..Len(alerts_) : Get(alerts_[i], "severity", None) = "critical"
    THEN "critical"
    ELSE IF \E i \in 1..Len(alerts_) : Get(alerts_[i], "severity", None) = "warning"
    THEN "warning"
    ELSE "info"

\* _build_message: "param=val(sev)" per entry; an entry is kept as its three
\* rendered parts and the message as the list of entries.
_build_message(alerts_) ==
    IF alerts_ = <<>> THEN << <<"environmental ok">> >>
    ELSE [i \in 1..Len(alerts_) |->
            << Get(alerts_[i], "parameter", None),
               ToString(alerts_[i].value),
               Get(alerts_[i], "severity", None) >>]

\* select(Alert.id).where(auv_id, type, status = 'active'): the ids that match.
\* session.scalar returns the first row of a result that has no ORDER BY.
ActiveIds(tbl, auv_id, type) ==
    { tbl[i].id : i \in { j \in 1..Len(tbl) : /\ tbl[j].auv_id = auv_id
                                              /\ tbl[j].type = type
                                              /\ tbl[j].status = "active" } }

\* Alert(...) as create_alert builds it; started_at is the server default now().
NewAlertRow(id, a, clock) ==
    [id         |-> id,
     auv_id     |-> a.auv_id,
     type       |-> a.type,
     severity   |-> a.severity,
     message    |-> a.message,
     payload    |-> IF a.telemetry_id # NoTid /\ "telemetry_id" \notin DOMAIN a.payload
                    THEN a.payload @@ [telemetry_id |-> a.telemetry_id]
                    ELSE a.payload,
     status     |-> a.status,
     started_at |-> clock,
     ended_at   |-> None]

\* Faulty variant: the writer called with dedupe left at False (no existence check).
create_alert_no_dedupe(tbl, seq, clock, a) ==
    { [id |-> seq + 1, alerts |-> Append(tbl, NewAlertRow(seq + 1, a, clock)),
       seq |-> seq + 1, inserted |-> TRUE] }

\* Faulty variant: the writer refreshes the existing active row (an upsert) before
\* returning its id.
create_alert_refresh(tbl, seq, clock, a) ==
    LET existing == ActiveIds(tbl, a.auv_id, a.type)
    IN  IF existing # {}
        THEN { [id |-> e,
                alerts |-> [i \in 1..Len(tbl) |->
                              IF tbl[i].id = e
                              THEN [tbl[i] EXCEPT !.severity = a.severity,
                                                  !.message = a.message,
                                                  !.started_at = clock]
                              ELSE tbl[i]],
                seq |-> seq, inserted |-> FALSE] : e \in existing }
        ELSE { [id |-> seq + 1, alerts |-> Append(tbl, NewAlertRow(seq + 1, a, clock)),
                seq |-> seq + 1, inserted |-> TRUE] }

\* create_alert run to completion on the committed table `tbl`: the possible
\* outcomes [id returned, table, id sequence, inserted].
create_alert(tbl, seq, clock, a) ==
    LET existing == IF a.dedupe THEN ActiveIds(tbl, a.auv_id, a.type) ELSE {}
    IN  IF existing # {}
        THEN { [id |-> e, alerts |-> tbl, seq |-> seq, inserted |-> FALSE] : e \in existing }
        ELSE { [id |-> seq + 1, alerts |-> Append(tbl, NewAlertRow(seq + 1, a, clock)),
                seq |-> seq + 1, inserted |-> TRUE] }

\* The arguments the three wrappers hand to create_alert.
environmental_args(auv_id, payload, telemetry_id) ==
    LET alerts_ == Get(payload, "alerts", <<>>)
    IN  [auv_id |-> auv_id, type |-> "environmental",
         severity |-> _derive_severity(alerts_),
         message |-> _build_message(alerts_),
         payload |-> IF telemetry_id # NoTid
                     THEN [k \in (DOMAIN payload) \cup {"telemetry_id"} |->
                             IF k = "telemetry_id" THEN telemetry_id ELSE payload[k]]
                     ELSE payload,
         status |-> "active", telemetry_id |-> telemetry_id, dedupe |-> TRUE]

zone_violation_args(auv_id, telemetry_id, zone_id) ==
    [auv_id |-> auv_id, type |-> "zone_violation", severity |-> "critical",
     message |-> << <<"AUV", auv_id, "outside allowed zone", zone_id>> >>,
     payload |-> [zone_id |-> zone_id, violation |-> "outside",
                  telemetry_id |-> telemetry_id],
     status |-> "active", telemetry_id |-> telemetry_id, dedupe |-> TRUE]

dead_auv_args(auv_id, last_seen_iso, threshold_seconds) ==
    [auv_id |-> auv_id, type |-> "dead_auv", severity |-> "critical",
     message |-> << <<"AUV", auv_id, "silent beyond", ToString(threshold_seconds)>> >>,
     payload |-> [last_seen |-> last_seen_iso, threshold_seconds |-> threshold_seconds],
     status |-> "active", telemetry_id |-> NoTid, dedupe |-> TRUE]

create_environmental_alert(tbl, seq, clock, auv_id, payload, telemetry_id) ==
    create_alert(tbl, seq, clock, environmental_args(auv_id, payload, telemetry_id))

create_zone_violation_alert(tbl, seq, clock, auv_id, telemetry_id, zone_id) ==
    create_alert(tbl, seq, clock, zone_violation_args(auv_id, telemetry_id, zone_id))

create_dead_auv_alert_generic(tbl, seq, clock, auv_id, last_seen_iso, threshold_seconds) ==
    create_alert(tbl, seq, clock, dead_auv_args(auv_id, last_seen_iso, threshold_seconds))

\* ------------------------------------------------------------------ store
NoWkt  == <<>>
NoGeom == <<>>

\* ST_GeomFromText(wkt, 4326) of a text "POINT(x y)": x is the first number.
ST_GeomFromText(wkt) == [x |-> wkt[2], y |-> wkt[3]]

\* ST_Contains(zone geometry, point): the point lies in the interior of the
\* polygon; a point on the boundary is not contained.  Zones are rectangles.
ST_Contains(zgeom, pgeom) ==
    /\ zgeom.lon_min < pgeom.x /\ pgeom.x < zgeom.lon_max
    /\ zgeom.lat_min < pgeom.y /\ pgeom.y < zgeom.lat_max

\* Degrees are scaled by 10.  The square of the zone test and of the spec's
\* scenarios: latitude 10..11, longitude -126..-125.
Square == [lon_min |-> -1260, lon_max |-> -1250, lat_min |-> 100, lat_max |-> 110]

\* The zones table as scripts/load_zones.py leaves it: Z1 with its geometry; Z2
\* is a row whose geom column is NULL (the column is nullable).
ZonesLoaded == [z \in ZoneIds |-> [geom |-> IF z = "Z1" THEN Square ELSE NoGeom]]

Sessions == {"s1", "s2"}
IdleSession == [pc |-> "idle", args |-> NoDict, row |-> NoDict, id |-> NoTid]

WS == {"w1", "w2"}

InitDb ==
    /\ telemetry = <<>>
    /\ zones = ZonesLoaded
    /\ auv_status = <<>>
    /\ alerts = <<>>
    /\ alert_seq = 0
    /\ now = 0

InitCall ==
    /\ wcall = [n |-> 0, auv_id |-> None, type |-> None, id |-> NoTid]
    /\ sess = [s \in Sessions |-> IdleSession]

InitEnv == cur = NoDict /\ report = NoDict

IdleDetect == [pc |-> "idle", telemetry_id |-> NoTid, auv_id |-> None,
               zone_id |-> None, inside |-> None, result |-> NoDict]

InitZone == dz = IdleDetect

InitUp ==
    /\ pc = "connect"
    /\ tid = NoTid
    /\ nrec = 0
    /\ steps = <<>>
    /\ failed = {}

IdleBroadcast == [message |-> NoDict, i |-> 0, disconnected |-> <<>>]

InitHub ==
    /\ active_connections = <<>>
    /\ client_state = [w \in WS |-> "CONNECTING"]
    /\ inbox = [w \in WS |-> <<>>]
    /\ lock = None
    /\ bc = [t \in {"upstream", "scanner"} |-> IdleBroadcast]
    /\ acquired = <<>>

\* The scanner before its first tick; nobody sleeps.
\* called, written and error are history: the vehicles the writer was called
\* for in this tick, those whose call ever committed, and whether the tick's
\* read raised.
IdleScan == [pc |-> "tick", dead_auvs |-> <<>>, i |-> 0, ticks |-> 0,
             called |-> <<>>, written |-> {}, error |-> FALSE]

InitTasks ==
    /\ scan = IdleScan
    /\ sleep = [t \in {"upstream", "scanner"} |-> 0]

\* lifespan has started both tasks and yielded; no request has been made.
InitService ==
    /\ app = "serving"
    /\ req = NoDict
    /\ resp = NoDict

\* The clock advances.
Tick ==
    /\ now < MaxTime
    /\ now' = now + 1
    /\ UNCHANGED <<telemetry, zones, auv_status, alerts, alert_seq>>
    /\ UNCHANGED <<callVars, envVars, dz, upVars, hubVars, taskVars, svcVars>>

\* ------------------------------------------- alert writer, calls in sequence
\* Records whose evaluation gives the reports the environmental wrapper is
\* called with.
ReportSamples(v) ==
    { check_thresholds(r, now) :
        r \in { [auv_id |-> v, temperature_c |-> Num(350)],
                 [auv_id |-> v, temperature_c |-> Num(280), turbidity |-> Num(35)] } }

\* One alert-writer call in its own write transaction, committed.
WriterCommit(out, a) ==
    /\ wcall.n < MaxAlerts
    /\ alerts' = out.alerts
    /\ alert_seq' = out.seq
    /\ wcall' = [n |-> wcall.n + 1, auv_id |-> a.auv_id, type |-> a.type, id |-> out.id]
    /\ UNCHANGED <<telemetry, zones, auv_status, now, sess>>
    /\ UNCHANGED <<envVars, dz, upVars, hubVars, taskVars, svcVars>>

WriterEnvironmental ==
    \E v \in AUVs, t \in {NoTid, 1} : \E payload \in ReportSamples(v) :
      \E out \in create_environmental_alert(alerts, alert_seq, now, v, payload, t) :
        WriterCommit(out, environmental_args(v, payload, t))

WriterZone ==
    \E v \in AUVs, t \in {1}, z \in {"Z1"} :
      \E out \in create_zone_violation_alert(alerts, alert_seq, now, v, t, z) :
        WriterCommit(out, zone_violation_args(v, t, z))

WriterDead ==
    \E v \in AUVs, seen \in 0..now :
      \E out \in create_dead_auv_alert_generic(alerts, alert_seq, now, v, seen,
                                               DEAD_AUV_TIMEOUT_SECONDS) :
        WriterCommit(out, dead_auv_args(v, seen, DEAD_AUV_TIMEOUT_SECONDS))

InitQuiet == InitDb /\ InitCall /\ InitEnv /\ InitZone /\ InitUp /\ InitHub /\ InitTasks /\ InitService

NextWriter == WriterEnvironmental \/ WriterZone \/ WriterDead \/ Tick

SpecWriter == InitQuiet /\ [][NextWriter]_vars

ActiveCount(tbl, v, k) == Cardinality(ActiveIds(tbl, v, k))

RaceArgs ==
    { zone_violation_args(v, 1, "Z1") : v \in AUVs }
    \cup { dead_auv_args(v, 0, DEAD_AUV_TIMEOUT_SECONDS) : v \in AUVs }

Busy == { s \in Sessions : sess[s].pc # "idle" }

\* create_alert lines 56-65: the existence check.
RaceSelect(s) ==
    /\ sess[s].pc = "idle"
    /\ wcall.n + Cardinality(Busy) < MaxAlerts
    /\ \E a \in RaceArgs :
         LET existing == ActiveIds(alerts, a.auv_id, a.type)
         IN  \/ /\ existing = {}
                /\ sess' = [sess EXCEPT ![s] = [pc |-> "checked", args |-> a,
                                                row |-> NoDict, id |-> NoTid]]
             \/ \E e \in existing :
                  sess' = [sess EXCEPT ![s] = [pc |-> "returned", args |-> a,
                                               row |-> NoDict, id |-> e]]
    /\ UNCHANGED <<dbVars, wcall, envVars, dz, upVars, hubVars, taskVars, svcVars>>

\* create_alert lines 67-81: session.add(row); flush() sends the INSERT and
\* obtains the id from the sequence.
RaceFlush(s) ==
    /\ sess[s].pc = "checked"
    /\ alert_seq' = alert_seq + 1
    /\ sess' = [sess EXCEPT ![s].pc = "flushed",
                            ![s].row = NewAlertRow(alert_seq + 1, sess[s].args, now),
                            ![s].id = alert_seq + 1]
    /\ UNCHANGED <<telemetry, zones, auv_status, alerts, now, wcall>>
    /\ UNCHANGED <<envVars, dz, upVars, hubVars, taskVars, svcVars>>

\* The caller's session.begin() block ends: the transaction commits.
RaceCommit(s) ==
    /\ sess[s].pc \in {"flushed", "returned"}
    /\ alerts' = IF sess[s].pc = "flushed" THEN Append(alerts, sess[s].row) ELSE alerts
    /\ wcall' = [n |-> wcall.n + 1, auv_id |-> sess[s].args.auv_id,
                 type |-> sess[s].args.type, id |-> sess[s].id]
    /\ sess' = [sess EXCEPT ![s] = IdleSession]
    /\ UNCHANGED <<telemetry, zones, auv_status, alert_seq, now>>
    /\ UNCHANGED <<envVars, dz, upVars, hubVars, taskVars, svcVars>>

NextRace ==
    \/ \E s \in Sessions : RaceSelect(s)
    \/ \E s \in Sessions : RaceFlush(s)
    \/ \E s \in Sessions : RaceCommit(s)
    \/ Tick

SpecRace == InitQuiet /\ [][NextRace]_vars

\* C2: the at-most-one-active-alert invariant also holds when two alert-writer
\* calls for the same (vehicle, kind) overlap, both existence checks running
\* before either insert commits.
C2_AtMostOneActiveOverlapping ==
    (\A s \in Sessions : sess[s].pc = "idle")
        => \A v \in AUVs, k \in ALERT_TYPES : ActiveCount(alerts, v, k) <= 1

\* ------------------------------------------------------ telemetry ingestor
\* A timestamp text of an upstream frame: the instant it denotes, or a text
\* datetime.fromisoformat rejects.
Iso(t)   == [instant |-> t]
BadIso   == [garbage |-> "not a timestamp"]
IsIso(s) == "instant" \in DOMAIN s
fromisoformat(s) == s.instant

\* wkt_from_latlon(loc.get("lat"), loc.get("lon")): "POINT(lon lat)", or None
\* when either is missing.
wkt_from_latlon(loc) ==
    IF "lat" \notin DOMAIN loc \/ "lon" \notin DOMAIN loc THEN NoWkt
    ELSE <<"POINT", loc.lon, loc.lat>>

\* Faulty variant: the text written in latitude-longitude order.
wkt_from_latlon_swapped(loc) ==
    IF "lat" \notin DOMAIN loc \/ "lon" \notin DOMAIN loc THEN NoWkt
    ELSE <<"POINT", loc.lat, loc.lon>>

LocationWkt(telemetry_) ==
    IF "location_wkt" \in DOMAIN telemetry_ /\ telemetry_.location_wkt # NoWkt
    THEN telemetry_.location_wkt
    ELSE wkt_from_latlon(Get(telemetry_, "location", NoDict))

\* ingest_telemetry raises before anything is written: the timestamp is missing
\* or unparseable, or auv_id is missing (telemetry.auv_id is NOT NULL).
IngestRaises(telemetry_) ==
    \/ ~IsObject(telemetry_)    \* telemetry.get: no such attribute
    \/ "timestamp" \notin DOMAIN telemetry_
    \/ ~IsIso(telemetry_.timestamp)
    \/ "auv_id" \notin DOMAIN telemetry_

\* Faulty variant: the upsert keeps the later of the stored and the new
\* last_seen.
ingest_telemetry_monotone(tbl, status, telemetry_) ==
    LET id  == Len(tbl) + 1
        ts  == fromisoformat(telemetry_.timestamp)
        wkt == LocationWkt(telemetry_)
        row == [id             |-> id,
                auv_id         |-> telemetry_.auv_id,
                timestamp      |-> ts,
                zone_id        |-> Get(telemetry_, "zone_id", None),
                location_wkt   |-> wkt,
                geom           |-> IF wkt # NoWkt THEN ST_GeomFromText(wkt) ELSE NoGeom,
                raw            |-> telemetry_,
                zone_violation |-> None]
    IN  [id         |-> id,
         telemetry  |-> Append(tbl, row),
         auv_status |-> [a \in (DOMAIN status) \cup {telemetry_.auv_id} |->
                           IF a # telemetry_.auv_id THEN status[a]
                           ELSE IF a \in DOMAIN status /\ status[a] > ts THEN status[a]
                           ELSE ts]]

\* ingest_telemetry on a record it accepts: the telemetry row with its geom and
\* the auv_status upsert, as the enclosing transaction commits them.
ingest_telemetry(tbl, status, telemetry_) ==
    LET id  == Len(tbl) + 1
        ts  == fromisoformat(telemetry_.timestamp)
        wkt == LocationWkt(telemetry_)
        row == [id             |-> id,
                auv_id         |-> telemetry_.auv_id,
                timestamp      |-> ts,
                zone_id        |-> Get(telemetry_, "zone_id", None),
                location_wkt   |-> wkt,
                geom           |-> IF wkt # NoWkt THEN ST_GeomFromText(wkt) ELSE NoGeom,
                raw            |-> telemetry_,
                zone_violation |-> None]
    IN  [id         |-> id,
         telemetry  |-> Append(tbl, row),
         auv_status |-> [a \in (DOMAIN status) \cup {telemetry_.auv_id} |->
                           IF a = telemetry_.auv_id THEN ts ELSE status[a]]]

\* ------------------------------------------------------------ zone detector
\* _get_telemetry_info: (auv_id, zone_id) of the row, (None, None) if absent.
_get_telemetry_info(tbl, telemetry_id) ==
    IF telemetry_id \in 1..Len(tbl)
    THEN <<tbl[telemetry_id].auv_id, tbl[telemetry_id].zone_id>>
    ELSE <<None, None>>

\* _update_zone_violation: UPDATE telemetry SET zone_violation = v WHERE id = tid
_update_zone_violation(tbl, telemetry_id, v) ==
    [i \in 1..Len(tbl) |->
        IF tbl[i].id = telemetry_id THEN [tbl[i] EXCEPT !.zone_violation = v] ELSE tbl[i]]

\* _is_inside_allowed_zone: "True"/"False" for the joined row, None when the
\* join is empty (no such zone, zone geom NULL or point geom NULL).
_is_inside_allowed_zone(zns, tbl, telemetry_id, zone_id) ==
    IF /\ zone_id \in DOMAIN zns
       /\ zns[zone_id].geom # NoGeom
       /\ telemetry_id \in 1..Len(tbl)
       /\ tbl[telemetry_id].geom # NoGeom
    THEN IF ST_Contains(zns[zone_id].geom, tbl[telemetry_id].geom) THEN "True" ELSE "False"
    ELSE None

\* Python truthiness of an optional string.
Truthy(str) == str # None /\ str # ""

\* detect_zone_violation, phase 1 (read session): auv_id, zone_id and the
\* containment decision.
DetectPhase1(zns, tbl, telemetry_id) ==
    LET info    == _get_telemetry_info(tbl, telemetry_id)
        zone_id == info[2]
    IN  [auv_id  |-> info[1],
         zone_id |-> zone_id,
         inside  |-> IF Truthy(zone_id)
                     THEN _is_inside_allowed_zone(zns, tbl, telemetry_id, zone_id)
                     ELSE None]

\* Faulty variant: a missing decision treated like "inside" (the violation is cleared
\* whenever the point is not known to be outside).
DetectBranch_clear_unknown(zone_id, inside) ==
    IF Truthy(zone_id) /\ inside = "False" THEN "write_outside" ELSE "write_inside"

\* Faulty variant: the containment test inverted.
DetectBranch_inverted(zone_id, inside) ==
    IF Truthy(zone_id) /\ inside = "True" THEN "write_outside"
    ELSE IF Truthy(zone_id) /\ inside = "False" THEN "write_inside"
    ELSE "returned"

\* detect_zone_violation lines 60, 79, 85: what follows phase 1.
DetectBranch(zone_id, inside) ==
    IF Truthy(zone_id) /\ inside = "False" THEN "write_outside"
    ELSE IF Truthy(zone_id) /\ inside = "True" THEN "write_inside"
    ELSE "returned"

ZoneSummary(zone_id, telemetry_id) ==
    [type |-> "zone_violation", violation |-> "outside",
     zone_id |-> zone_id, telemetry_id |-> telemetry_id]

\* Phase 1 in its read session; a store error raises out of the function.
DetectRead ==
    /\ dz.pc = "read"
    /\ \/ LET r == DetectPhase1(zones, telemetry, dz.telemetry_id)
          IN  dz' = [dz EXCEPT !.auv_id = r.auv_id, !.zone_id = r.zone_id,
                               !.inside = r.inside,
                               !.pc = DetectBranch(r.zone_id, r.inside)]
       \/ dz' = [dz EXCEPT !.pc = "raised"]
    /\ UNCHANGED <<dbVars, callVars, envVars, upVars, hubVars, taskVars, svcVars>>

\* Lines 62-77: one write transaction marks the row and calls the alert
\* writer; the summary is returned after the commit.  A store error rolls the
\* transaction back and raises.
DetectWriteOutside ==
    /\ dz.pc = "write_outside"
    /\ \/ /\ telemetry' = _update_zone_violation(telemetry, dz.telemetry_id, "outside")
          /\ IF Truthy(dz.auv_id)
             THEN \E out \in create_zone_violation_alert(alerts, alert_seq, now, dz.auv_id,
                                                         dz.telemetry_id, dz.zone_id) :
                    /\ alerts' = out.alerts
                    /\ alert_seq' = out.seq
                    /\ wcall' = [n |-> wcall.n + 1, auv_id |-> dz.auv_id,
                                 type |-> "zone_violation", id |-> out.id]
             ELSE UNCHANGED <<alerts, alert_seq, wcall>>
          /\ dz' = [dz EXCEPT !.pc = "returned",
                              !.result = ZoneSummary(dz.zone_id, dz.telemetry_id)]
       \/ /\ dz' = [dz EXCEPT !.pc = "raised"]
          /\ UNCHANGED <<telemetry, alerts, alert_seq, wcall>>
    /\ UNCHANGED <<zones, auv_status, now, sess, envVars, upVars, hubVars, taskVars, svcVars>>

\* Lines 79-85: the violation is cleared in its own write transaction.
DetectWriteInside ==
    /\ dz.pc = "write_inside"
    /\ \/ /\ telemetry' = _update_zone_violation(telemetry, dz.telemetry_id, None)
          /\ dz' = [dz EXCEPT !.pc = "returned", !.result = NoDict]
       \/ /\ dz' = [dz EXCEPT !.pc = "raised"]
          /\ UNCHANGED telemetry
    /\ UNCHANGED <<zones, auv_status, alerts, alert_seq, now>>
    /\ UNCHANGED <<callVars, envVars, upVars, hubVars, taskVars, svcVars>>

\* ------------------------------------- zone detector called on stored points
\* Locations, degrees scaled by 10: inside the square, outside it, on its
\* edge, and a location without a longitude.
LocInside  == [lat |-> 105, lon |-> -1255]
LocOutside == [lat |-> 150, lon |-> -1300]
LocEdge    == [lat |-> 100, lon |-> -1255]
LocNoLon   == [lat |-> 105]

\* A wider zone geometry that contains LocOutside as well.
Wide == [lon_min |-> -1400, lon_max |-> -1200, lat_min |-> 0, lat_max |-> 200]

ZonePoints ==
    { [auv_id |-> "AUV-1", timestamp |-> Iso(1), zone_id |-> "Z1", location |-> l] :
        l \in {LocInside, LocOutside, LocEdge, LocNoLon} }
    \cup { [auv_id |-> "AUV-1", timestamp |-> Iso(1), zone_id |-> z, location |-> LocOutside] :
             z \in {"Z2", "Z9"} }
    \cup { [auv_id |-> "AUV-1", timestamp |-> Iso(1), location |-> LocOutside],
           [auv_id |-> "AUV-2", timestamp |-> Iso(1), zone_id |-> "Z1", location |-> LocOutside] }

\* A point is stored (as the zone test inserts its rows).
ZoneInsertPoint ==
    /\ Len(telemetry) < MaxPoints
    /\ \E r \in ZonePoints :
         LET w == ingest_telemetry(telemetry, auv_status, r)
         IN  telemetry' = w.telemetry /\ auv_status' = w.auv_status
    /\ UNCHANGED <<zones, alerts, alert_seq, now, callVars, envVars, dz, upVars, hubVars, taskVars, svcVars>>

\* detect_zone_violation(session_factory, telemetry_id) is called.
ZoneCallDetect ==
    /\ dz.pc \in {"idle", "returned", "raised"}
    /\ wcall.n < MaxAlerts
    /\ \E t \in 1..Len(telemetry) :
         dz' = [IdleDetect EXCEPT !.pc = "read", !.telemetry_id = t]
    /\ UNCHANGED <<dbVars, callVars, envVars, upVars, hubVars, taskVars, svcVars>>

\* scripts/load_zones.py _upsert_zone: a zone's geometry is loaded or replaced.
ZoneUpsert ==
    /\ \E z \in ZoneIds, g \in {Square, Wide} :
         /\ z = "Z2" => g = Square
         /\ zones[z].geom # g
         /\ zones' = [zones EXCEPT ![z].geom = g]
    /\ UNCHANGED <<telemetry, auv_status, alerts, alert_seq, now>>
    /\ UNCHANGED <<callVars, envVars, dz, upVars, hubVars, taskVars, svcVars>>

NextZone ==
    \/ ZoneInsertPoint \/ ZoneCallDetect \/ ZoneUpsert
    \/ DetectRead \/ DetectWriteOutside \/ DetectWriteInside

SpecZone == InitQuiet /\ [][NextZone]_vars

\* The point of the running call has what the decision needs: an assigned
\* zone, that zone with a geometry, and a geometry of its own.
HasZoneData(t) ==
    /\ t \in 1..Len(telemetry)
    /\ Truthy(telemetry[t].zone_id)
    /\ telemetry[t].zone_id \in DOMAIN zones
    /\ zones[telemetry[t].zone_id].geom # NoGeom
    /\ telemetry[t].geom # NoGeom

PointInZone(t) == ST_Contains(zones[telemetry[t].zone_id].geom, telemetry[t].geom)

ActiveRows(tbl, v, k) ==
    { i \in 1..Len(tbl) : tbl[i].auv_id = v /\ tbl[i].type = k /\ tbl[i].status = "active" }

C7_NoDecisionNoChange ==
    [][ (dz.pc = "read" /\ dz'.pc # "read" /\ ~HasZoneData(dz.telemetry_id))
          => /\ dz'.pc \in {"returned", "raised"}
             /\ dz'.result = NoDict
             /\ telemetry' = telemetry
             /\ alerts' = alerts
      ]_vars

\* C7 witness: a call on a point whose assigned zone has no geometry (or no
\* row) returned None without a decision; the other stored point has no
\* geometry; both rows and the alerts table are as they were stored.
C7_Witness ==
    /\ dz.pc = "returned" /\ dz.inside = None /\ dz.result = NoDict
    /\ ~HasZoneData(dz.telemetry_id)
    /\ Len(telemetry) = 2
    /\ telemetry[1].geom = NoGeom /\ telemetry[1].zone_id = "Z1"
    /\ telemetry[2].zone_id \in {"Z9", "Z2"} /\ telemetry[2].geom # NoGeom
    /\ dz.telemetry_id = 2
    /\ \A i \in 1..2 : telemetry[i].zone_violation = None
    /\ alerts = <<>>

\* --------------------------------------------------------- ConnectionManager
Tasks == {"upstream", "scanner"}

\* The frame a client receives.  rec is not part of the frame: it numbers the
\* upstream record the event was published for.
Frame(type, data, clock, rec) ==
    [type |-> type, data |-> data, timestamp |-> clock, rec |-> rec]

\* Faulty variant: a send that puts the frame ahead of the frames already delivered.
send_json_prepend(inb, w, message) == [inb EXCEPT ![w] = <<message>> \o inb[w]]

\* connection.send_json(message) that succeeds: the client receives the frame
\* after all earlier ones.
send_json(inb, w, message) == [inb EXCEPT ![w] = Append(inb[w], message)]

\* broadcast line 70-71: the lock is taken and the loop starts.
BroadcastAcquire(t, message) ==
    /\ lock = None
    /\ bc[t].i = 0
    /\ lock' = t
    /\ bc' = [bc EXCEPT ![t] = [message |-> message, i |-> 1, disconnected |-> <<>>]]
    /\ acquired' = Append(acquired, message)
    /\ UNCHANGED <<active_connections, client_state, inbox>>

\* Faulty variant: a connection that is not CONNECTED is treated like one whose
\* send raised.
BroadcastSend_marks_unconnected(t) ==
    /\ lock = t
    /\ bc[t].i \in 1..Len(active_connections)
    /\ LET connection == active_connections[bc[t].i]
       IN  \/ /\ client_state[connection] = "CONNECTED"
              /\ inbox' = send_json(inbox, connection, bc[t].message)
              /\ bc' = [bc EXCEPT ![t].i = @ + 1]
           \/ /\ bc' = [bc EXCEPT ![t].i = @ + 1,
                                  ![t].disconnected = Append(@, connection)]
              /\ UNCHANGED inbox
    /\ UNCHANGED <<active_connections, client_state, lock, acquired>>

\* broadcast lines 72-78, one iteration: a connection that is not CONNECTED is
\* passed over; a send either succeeds or raises, and a connection whose send
\* raised is appended to `disconnected`.
BroadcastSend(t) ==
    /\ lock = t
    /\ bc[t].i \in 1..Len(active_connections)
    /\ LET connection == active_connections[bc[t].i]
       IN  \/ /\ client_state[connection] = "CONNECTED"
              /\ inbox' = send_json(inbox, connection, bc[t].message)
              /\ bc' = [bc EXCEPT ![t].i = @ + 1]
           \/ /\ client_state[connection] = "CONNECTED"
              /\ bc' = [bc EXCEPT ![t].i = @ + 1,
                                  ![t].disconnected = Append(@, connection)]
              /\ UNCHANGED inbox
           \/ /\ client_state[connection] # "CONNECTED"
              /\ bc' = [bc EXCEPT ![t].i = @ + 1]
              /\ UNCHANGED inbox
    /\ UNCHANGED <<active_connections, client_state, lock, acquired>>

BroadcastLoopDone(t) == lock = t /\ bc[t].i > Len(active_connections)

\* broadcast returns: nothing to clean up, the lock is released.
BroadcastReturn(t) ==
    /\ BroadcastLoopDone(t)
    /\ bc[t].disconnected = <<>>
    /\ lock' = None
    /\ bc' = [bc EXCEPT ![t] = IdleBroadcast]
    /\ UNCHANGED <<active_connections, client_state, inbox, acquired>>

\* broadcast lines 81-82: self.disconnect(conn) is awaited inside the
\* `async with self._lock` block; disconnect takes the same asyncio.Lock, which
\* is not reentrant, so the task waits for a lock it holds itself.
BroadcastCleanupBlocks(t) ==
    /\ BroadcastLoopDone(t)
    /\ bc[t].disconnected # <<>>
    /\ bc' = [bc EXCEPT ![t].i = -1]
    /\ UNCHANGED <<active_connections, client_state, inbox, lock, acquired>>

\* websocket_endpoint -> manager.connect: accept, then register under the lock.
WsAccept(w) ==
    /\ client_state[w] = "CONNECTING"
    /\ client_state' = [client_state EXCEPT ![w] = "CONNECTED"]
    /\ UNCHANGED <<active_connections, inbox, lock, bc, acquired>>

InList(w) == \E i \in 1..Len(active_connections) : active_connections[i] = w

\* Faulty variant: the append made without taking the lock.
WsRegister_unlocked(w) ==
    /\ client_state[w] = "CONNECTED"
    /\ ~InList(w)
    /\ active_connections' = Append(active_connections, w)
    /\ UNCHANGED <<client_state, inbox, lock, bc, acquired>>

\* connect lines 57-58: the append, made while holding the lock.
WsRegister(w) ==
    /\ client_state[w] = "CONNECTED"
    /\ ~InList(w)
    /\ lock = None
    /\ active_connections' = Append(active_connections, w)
    /\ UNCHANGED <<client_state, inbox, lock, bc, acquired>>

\* The client goes away: receive_json raises WebSocketDisconnect.
WsDrop(w) ==
    /\ client_state[w] = "CONNECTED"
    /\ InList(w)
    /\ client_state' = [client_state EXCEPT ![w] = "DISCONNECTED"]
    /\ UNCHANGED <<active_connections, inbox, lock, bc, acquired>>

\* manager.disconnect(websocket) from the handler: remove under the lock.
WsUnregister(w) ==
    /\ client_state[w] = "DISCONNECTED"
    /\ InList(w)
    /\ lock = None
    /\ active_connections' = SelectSeq(active_connections, LAMBDA c : c # w)
    /\ UNCHANGED <<client_state, inbox, lock, bc, acquired>>

\* The clients in S connect, go away and are unregistered.
Subscribers(S) ==
    /\ \E w \in S : WsAccept(w) \/ WsRegister(w) \/ WsDrop(w) \/ WsUnregister(w)
    /\ UNCHANGED <<dbVars, callVars, envVars, dz, upVars, taskVars, svcVars>>

\* ------------------------------------------------ the hub and its two tasks
\* The events the two background tasks publish (main.py lines 225, 237, 286).
EventTypes(t) ==
    IF t = "upstream" THEN {"environmental_alert", "zone_alert"} ELSE {"dead_auv_alert"}

\* A task calls manager.broadcast; the call waits until the lock is free.  The
\* event is numbered by its place in the order of acquisition.
HubPublish(t) ==
    /\ Len(acquired) < MaxBroadcasts
    /\ \E type \in EventTypes(t) :
          BroadcastAcquire(t, Frame(type, [auv_id |-> "AUV-1"], now, Len(acquired) + 1))

HubTask(t) ==
    /\ \/ HubPublish(t)
       \/ BroadcastSend(t)
       \/ BroadcastCleanupBlocks(t)
       \/ BroadcastReturn(t)
    /\ UNCHANGED <<dbVars, callVars, envVars, dz, upVars, taskVars, svcVars>>

NextHub == HubTask("upstream") \/ HubTask("scanner") \/ Subscribers(WS)

SpecHub == InitQuiet /\ [][NextHub]_vars

\* The event loop runs every task that can take a step.
SpecHubFair ==
    /\ SpecHub
    /\ \A t \in Tasks : WF_vars(HubTask(t))
    /\ \A w \in WS : WF_vars(WsRegister(w) /\ UNCHANGED <<dbVars, callVars, envVars, dz, upVars, taskVars, svcVars>>)
    /\ \A w \in WS : WF_vars(WsUnregister(w) /\ UNCHANGED <<dbVars, callVars, envVars, dz, upVars, taskVars, svcVars>>)

Members(seq) == {seq[i] : i \in 1..Len(seq)}

\* C11: when a send raises during a broadcast, the other connected
\* subscribers still get the event, and the broadcast returns with the failing
\* subscriber removed from active_connections.
C11_FailingSubscriberRemoved ==
    /\ [](\A t \in Tasks : BroadcastLoopDone(t) =>
            \A c \in Members(active_connections) :
               (client_state[c] = "CONNECTED" /\ c \notin Members(bc[t].disconnected))
                 => (inbox[c] # <<>> /\ inbox[c][Len(inbox[c])] = bc[t].message))
    /\ \A t \in Tasks, w \in WS :
          (w \in Members(bc[t].disconnected)) ~> (bc[t].i = 0 /\ ~InList(w))

\* C12: every broadcast returns with the lock released, whatever its
\* subscribers do: a task that holds the lock eventually gives it up.
C12_LockEventuallyReleased ==
    \A t \in Tasks : (lock = t) ~> (lock # t)

\* C13: active_connections changes only while no broadcast is under way, and a
\* broadcast iterates it only while its task holds the lock.
C13_SetGuardedByLock ==
    [][ /\ active_connections' # active_connections =>
            (lock = None /\ \A t \in Tasks : bc[t].i = 0)
        /\ \A t \in Tasks : bc[t].i # 0 => lock = t
      ]_vars

\* C13 witness: a broadcast is half way through the list while one client
\* waits to be registered and another to be removed.
C13_Witness ==
    /\ \E t \in Tasks : lock = t /\ bc[t].i = 2 /\ Len(active_connections) = 2
    /\ \E w \in WS : client_state[w] = "DISCONNECTED" /\ InList(w)

\* The place of an event in the order of acquisition.
AcquiredAt(e) == CHOOSE n \in 1..Len(acquired) : acquired[n] = e

\* C14: every subscriber receives events in the order in which their
\* broadcasts took the lock, and the sends of two broadcasts never interleave:
\* at most one broadcast is under way, and only its event is being sent.
C14_FifoPerSubscriber ==
    /\ \A w \in WS : \A i, j \in 1..Len(inbox[w]) :
          i < j => AcquiredAt(inbox[w][i]) < AcquiredAt(inbox[w][j])
    /\ \A t, u \in Tasks : (bc[t].i # 0 /\ bc[u].i # 0) => t = u
    /\ \A t \in Tasks : bc[t].i # 0 => bc[t].message = acquired[Len(acquired)]

\* C14 witness: one subscriber has received an event of the scanner and then
\* an event of the upstream task.
C14_Witness ==
    \E w \in WS :
        /\ Len(inbox[w]) >= 2
        /\ inbox[w][1].type = "dead_auv_alert"
        /\ inbox[w][2].type = "zone_alert"

\* C15: a subscriber that is not CONNECTED is passed over: nothing is sent to
\* it, it is not marked for removal, and the loop goes on to the next one.
C15_UnconnectedSkipped ==
    [][ \A t \in Tasks :
          ( /\ lock = t /\ bc[t].i \in 1..Len(active_connections)
            /\ client_state[active_connections[bc[t].i]] # "CONNECTED"
            /\ bc'[t] # bc[t] )
          => /\ inbox' = inbox
             /\ bc'[t].disconnected = bc[t].disconnected
             /\ bc'[t].i = bc[t].i + 1
             /\ lock' = t
      ]_vars

\* C15 witness: the broadcast passed over the first subscriber, which had
\* gone away, and delivered the event to the second.
C15_Witness ==
    \E t \in Tasks :
        /\ lock = t /\ bc[t].i = 3 /\ bc[t].disconnected = <<>>
        /\ Len(active_connections) = 2
        /\ client_state[active_connections[1]] = "DISCONNECTED"
        /\ bc[t].message \notin Members(inbox[active_connections[1]])
        /\ bc[t].message \in Members(inbox[active_connections[2]])

\* ------------------------------------- monitor_telemetry.process_telemetry
\* The frames the upstream feed sends (mock-telemetry's record shape): the
\* spec's scenario 1, a record violating both rules (critical temperature,
\* warning turbidity, outside its zone) sent with two timestamps, a second
\* vehicle without zone or location whose temperature goes from the warning
\* band to beyond the critical one, an unparseable timestamp and a temperature
\* that is not a number.
Frames ==
    { [auv_id |-> "AUV-1", timestamp |-> Iso(1), zone_id |-> "Z1",
       location |-> LocInside, temperature_c |-> Num(200), turbidity |-> Num(15)],
      [auv_id |-> "AUV-2", timestamp |-> Iso(1), temperature_c |-> Num(120)],
      [auv_id |-> "AUV-1", timestamp |-> BadIso, zone_id |-> "Z1",
       location |-> LocOutside, temperature_c |-> Num(350)],
      [auv_id |-> "AUV-2", timestamp |-> Iso(1), zone_id |-> "Z1",
       location |-> LocOutside, temperature_c |-> Text("n/a")] }
    \cup { [auv_id |-> "AUV-1", timestamp |-> Iso(t), zone_id |-> "Z1",
            location |-> LocOutside, temperature_c |-> Num(350), turbidity |-> Num(28)]
           : t \in 1..2 }
    \cup { [auv_id |-> "AUV-2", timestamp |-> Iso(2), temperature_c |-> Num(350)] }

\* Faulty variant: the zone section moved ahead of the broadcasts, the environmental
\* event published last.
process_telemetry_next_zone_first(at, report_, z_) ==
    CASE at = "ingest"         -> "threshold"
      [] at = "threshold"      -> IF report_ # NoDict THEN "env_alert" ELSE "zone"
      [] at = "env_alert"      -> "zone"
      [] at = "zone"           -> IF z_ # NoDict THEN "zone_broadcast"
                                  ELSE IF report_ # NoDict THEN "env_broadcast" ELSE "recv"
      [] at = "zone_broadcast" -> IF report_ # NoDict THEN "env_broadcast" ELSE "recv"
      [] at = "env_broadcast"  -> "recv"

\* Faulty variant: the environmental event published before its alert is written.
process_telemetry_next_broadcast_first(at, report_, z_) ==
    CASE at = "ingest"         -> "threshold"
      [] at = "threshold"      -> IF report_ # NoDict THEN "env_broadcast" ELSE "zone"
      [] at = "env_broadcast"  -> "env_alert"
      [] at = "env_alert"      -> "zone"
      [] at = "zone"           -> IF z_ # NoDict THEN "zone_broadcast" ELSE "recv"
      [] at = "zone_broadcast" -> "recv"

\* Faulty variant: the environmental event published only by the alert write,
\* which this order leaves without its broadcast.
process_telemetry_next_alert_only(at, report_, z_) ==
    CASE at = "ingest"         -> "threshold"
      [] at = "threshold"      -> IF report_ # NoDict THEN "env_alert" ELSE "zone"
      [] at = "env_alert"      -> "zone"
      [] at = "env_broadcast"  -> "zone"
      [] at = "zone"           -> IF z_ # NoDict THEN "zone_broadcast" ELSE "recv"
      [] at = "zone_broadcast" -> "recv"

\* The order of process_telemetry's sections (lines 198-244): what runs after
\* section `at`, given the evaluator's report and the zone detector's result.
process_telemetry_next(at, report_, z_) ==
    CASE at = "ingest"         -> "threshold"
      [] at = "threshold"      -> IF report_ # NoDict THEN "env_alert" ELSE "zone"
      [] at = "env_alert"      -> "env_broadcast"
      [] at = "env_broadcast"  -> "zone"
      [] at = "zone"           -> IF z_ # NoDict THEN "zone_broadcast" ELSE "recv"
      [] at = "zone_broadcast" -> "recv"

\* monitor_telemetry lines 249-255 and 273-274: ws_connect succeeds, or raises
\* aiohttp.ClientError.
Connect ==
    /\ pc = "connect"
    /\ pc' \in {"recv", "reconnect"}
    /\ UNCHANGED <<dbVars, callVars, envVars, dz, tid, nrec, steps, failed, hubVars, taskVars, svcVars>>

\* monitor_telemetry lines 257-263: a text frame is read and parsed; the
\* locals of process_telemetry start afresh.
Recv ==
    /\ pc = "recv"
    /\ nrec < MaxRecords
    /\ \E f \in Frames \cup {JsonArray, JsonNumber} : cur' = f
    /\ nrec' = nrec + 1
    /\ pc' = "ingest"
    /\ tid' = NoTid
    /\ report' = NoDict
    /\ dz' = IdleDetect
    /\ steps' = <<>>
    /\ failed' = {}
    /\ UNCHANGED <<dbVars, callVars, hubVars, taskVars, svcVars>>

\* Lines 260-265: the text is not JSON; json.loads raises JSONDecodeError,
\* which is logged, and the loop reads the next frame.
RecvInvalidJson ==
    /\ pc = "recv"
    /\ nrec < MaxRecords
    /\ nrec' = nrec + 1
    /\ steps' = <<>>
    /\ failed' = {"json"}
    /\ UNCHANGED <<dbVars, callVars, envVars, dz, pc, tid, hubVars, taskVars, svcVars>>

\* Lines 266-271 and the end of `async for`: an ERROR or CLOSED message, or
\* the transport closing, leaves the read loop.
RecvClosed ==
    /\ pc = "recv"
    /\ pc' = "reconnect"
    /\ UNCHANGED <<dbVars, callVars, envVars, dz, tid, nrec, steps, failed, hubVars, taskVars, svcVars>>

\* Lines 200-204: ingest_telemetry in one transaction, committed.
IngestCommit ==
    /\ pc = "ingest"
    /\ ~IngestRaises(cur)
    /\ LET w == ingest_telemetry(telemetry, auv_status, cur)
       IN  /\ telemetry' = w.telemetry
           /\ auv_status' = w.auv_status
           /\ tid' = w.id
    /\ steps' = Append(steps, "write")
    /\ pc' = process_telemetry_next("ingest", report, dz.result)
    /\ UNCHANGED <<zones, alerts, alert_seq, now, callVars, envVars, dz, nrec, failed, hubVars, taskVars, svcVars>>

\* Faulty variant: the last_seen upsert survives the failed insert.
IngestFail_keeps_upsert ==
    /\ pc = "ingest"
    /\ tid' = NoTid
    /\ steps' = Append(steps, "write_failed")
    /\ failed' = failed \cup {"ingest"}
    /\ pc' = process_telemetry_next("ingest", report, dz.result)
    /\ auv_status' = IF IsObject(cur) /\ "auv_id" \in DOMAIN cur
                     THEN [a \in (DOMAIN auv_status) \cup {cur.auv_id} |->
                             IF a = cur.auv_id THEN now ELSE auv_status[a]]
                     ELSE auv_status
    /\ UNCHANGED <<telemetry, zones, alerts, alert_seq, now>>
    /\ UNCHANGED <<callVars, envVars, dz, nrec, hubVars, taskVars, svcVars>>

\* Lines 205-206: ingest_telemetry raised (bad timestamp) or the store failed;
\* the transaction is rolled back and tid stays None.
IngestFail ==
    /\ pc = "ingest"
    /\ tid' = NoTid
    /\ steps' = Append(steps, "write_failed")
    /\ failed' = failed \cup {"ingest"}
    /\ pc' = process_telemetry_next("ingest", report, dz.result)
    /\ UNCHANGED <<dbVars, callVars, envVars, dz, nrec, hubVars, taskVars, svcVars>>

\* Line 209: env_monitor.check_thresholds(telemetry).  An exception is caught
\* only by the connection loop (line 275), which then reconnects.
EvalThresholds ==
    /\ pc = "threshold"
    /\ steps' = Append(steps, "threshold")
    /\ \/ /\ ~ThresholdsRaise(cur)
          /\ report' = check_thresholds(cur, now)
          /\ pc' = process_telemetry_next("threshold", report', dz.result)
          /\ UNCHANGED failed
       \/ /\ ThresholdsRaise(cur)
          /\ failed' = failed \cup {"threshold"}
          /\ pc' = "reconnect"
          /\ UNCHANGED report
    /\ UNCHANGED <<dbVars, callVars, cur, dz, tid, nrec, hubVars, taskVars, svcVars>>

\* Lines 211-220: create_environmental_alert in its own transaction, committed.
EnvAlertCommit ==
    /\ pc = "env_alert"
    /\ \E out \in create_environmental_alert(alerts, alert_seq, now,
                                             Get(cur, "auv_id", None), report, tid) :
         /\ alerts' = out.alerts
         /\ alert_seq' = out.seq
         /\ wcall' = [n |-> wcall.n + 1, auv_id |-> Get(cur, "auv_id", None),
                      type |-> "environmental", id |-> out.id]
    /\ steps' = Append(steps, "env_alert")
    /\ pc' = process_telemetry_next("env_alert", report, dz.result)
    /\ UNCHANGED <<telemetry, zones, auv_status, now, sess, envVars, dz, tid, nrec, failed, hubVars, taskVars, svcVars>>

\* Faulty variant: the alert written in the transaction of the point, so that its
\* failure takes the point and the last_seen update with it.
EnvAlertFail_shared_transaction ==
    /\ pc = "env_alert"
    /\ telemetry' = IF tid # NoTid THEN SubSeq(telemetry, 1, tid - 1) ELSE telemetry
    /\ steps' = Append(steps, "env_alert_failed")
    /\ failed' = failed \cup {"env_alert"}
    /\ pc' = process_telemetry_next("env_alert", report, dz.result)
    /\ UNCHANGED <<zones, auv_status, alerts, alert_seq, now>>
    /\ UNCHANGED <<callVars, envVars, dz, tid, nrec, hubVars, taskVars, svcVars>>

\* Lines 221-222: the alert transaction failed and was rolled back.
EnvAlertFail ==
    /\ pc = "env_alert"
    /\ steps' = Append(steps, "env_alert_failed")
    /\ failed' = failed \cup {"env_alert"}
    /\ pc' = process_telemetry_next("env_alert", report, dz.result)
    /\ UNCHANGED <<dbVars, callVars, envVars, dz, tid, nrec, hubVars, taskVars, svcVars>>

\* The event process_telemetry publishes at its two broadcast calls.
UpstreamFrame ==
    IF pc = "env_broadcast"
    THEN Frame("environmental_alert", report, now, nrec)
    ELSE Frame("zone_alert", dz.result, now, nrec)

\* Lines 225-229 and 237-241: await manager.broadcast(...).
UpstreamBroadcast ==
    /\ pc \in {"env_broadcast", "zone_broadcast"}
    /\ \/ /\ BroadcastAcquire("upstream", UpstreamFrame)
          /\ steps' = Append(steps, pc)
          /\ UNCHANGED pc
       \/ /\ BroadcastSend("upstream")
          /\ UNCHANGED <<steps, pc>>
       \/ /\ BroadcastCleanupBlocks("upstream")
          /\ UNCHANGED <<steps, pc>>
       \/ /\ BroadcastReturn("upstream")
          /\ pc' = process_telemetry_next(pc, report, dz.result)
          /\ UNCHANGED steps
    /\ UNCHANGED <<dbVars, callVars, envVars, dz, tid, nrec, failed, taskVars, svcVars>>

\* Faulty variant: the zone detector started as a task of its own, the read
\* loop going on without awaiting it.
ZoneStart_not_awaited ==
    /\ pc = "zone"
    /\ dz.pc = "idle"
    /\ dz' = IF tid # NoTid
             THEN [IdleDetect EXCEPT !.pc = "read", !.telemetry_id = tid]
             ELSE dz
    /\ pc' = "recv"
    /\ UNCHANGED <<dbVars, callVars, envVars, tid, nrec, steps, failed, hubVars, taskVars, svcVars>>

\* Lines 233-235: zone detection is entered only with a telemetry id.
ZoneStart ==
    /\ pc = "zone"
    /\ dz.pc = "idle"
    /\ \/ /\ tid # NoTid
          /\ dz' = [IdleDetect EXCEPT !.pc = "read", !.telemetry_id = tid]
          /\ UNCHANGED pc
       \/ /\ tid = NoTid
          /\ pc' = "recv"
          /\ UNCHANGED dz
    /\ UNCHANGED <<dbVars, callVars, envVars, tid, nrec, steps, failed, hubVars, taskVars, svcVars>>

\* Lines 235-244: detect_zone_violation returned z, or raised into the except.
ZoneReturn ==
    /\ pc = "zone"
    /\ dz.pc \in {"returned", "raised"}
    /\ steps' = Append(steps, "zone")
    /\ \/ /\ dz.pc = "returned"
          /\ pc' = process_telemetry_next("zone", report, dz.result)
          /\ UNCHANGED failed
       \/ /\ dz.pc = "raised"
          /\ pc' = "recv"
          /\ failed' = failed \cup {"zone"}
    /\ UNCHANGED <<dbVars, callVars, envVars, dz, tid, nrec, hubVars, taskVars, svcVars>>

\* Faulty variant: the next attempt made at once, without the sleep.
Reconnect_no_delay ==
    /\ pc = "reconnect"
    /\ pc' = "connect"
    /\ UNCHANGED <<dbVars, callVars, envVars, dz, tid, nrec, steps, failed, hubVars, taskVars, svcVars>>

\* Lines 278-279: whatever ended the connection, the loop logs and starts
\* asyncio.sleep(reconnect_delay).
Reconnect ==
    /\ pc = "reconnect"
    /\ pc' = "sleep"
    /\ sleep' = [sleep EXCEPT !["upstream"] = reconnect_delay]
    /\ UNCHANGED <<dbVars, callVars, envVars, dz, tid, nrec, steps, failed, hubVars, scan, svcVars>>

\* A second of the sleep passes.
UpstreamSleep ==
    /\ pc = "sleep"
    /\ sleep["upstream"] > 0
    /\ sleep' = [sleep EXCEPT !["upstream"] = @ - 1]
    /\ UNCHANGED <<dbVars, callVars, envVars, dz, upVars, hubVars, scan, svcVars>>

\* Line 247: the sleep is over, `while True` starts the next attempt.
UpstreamWake ==
    /\ pc = "sleep"
    /\ sleep["upstream"] = 0
    /\ pc' = "connect"
    /\ UNCHANGED <<dbVars, callVars, envVars, dz, tid, nrec, steps, failed, hubVars, taskVars, svcVars>>

Detect ==
    /\ pc = "zone"
    /\ DetectRead \/ DetectWriteOutside \/ DetectWriteInside

Next ==
    \/ Connect \/ Recv \/ RecvInvalidJson \/ RecvClosed
    \/ IngestCommit \/ IngestFail \/ EvalThresholds
    \/ EnvAlertCommit \/ EnvAlertFail \/ UpstreamBroadcast
    \/ ZoneStart \/ Detect \/ ZoneReturn
    \/ Reconnect \/ UpstreamSleep \/ UpstreamWake
    \/ Subscribers({"w1"})

Spec == InitQuiet /\ [][Next]_vars

\* The upstream task is scheduled whenever it can run, and its sleep ends.
SpecFair ==
    /\ Spec
    /\ WF_vars(Reconnect) /\ WF_vars(UpstreamSleep) /\ WF_vars(UpstreamWake)

\* --------------------------------------------- threshold evaluator, alone
Temperatures == {50, 100, 120, 150, 200, 250, 280, 300, 350}
Turbidities  == {-5, 0, 3, 5, 15, 25, 28, 30, 35}

EnvInputs ==
    LET base == [auv_id |-> "AUV-1", timestamp |-> Iso(1)]
        temps == {Num(t) : t \in Temperatures} \cup {Text("n/a")}
        turbs == {Num(t) : t \in Turbidities} \cup {Text("n/a")}
    IN  {base}
        \cup { base @@ [temperature_c |-> a] : a \in temps }
        \cup { base @@ [turbidity |-> b] : b \in turbs }
        \cup { base @@ [temperature_c |-> a, turbidity |-> b] : a \in temps, b \in turbs }

InitEval ==
    /\ InitDb /\ InitCall /\ InitZone /\ InitHub /\ InitTasks /\ InitService
    /\ cur \in EnvInputs
    /\ report = NoDict
    /\ pc = "threshold" /\ tid = NoTid /\ nrec = 1 /\ steps = <<>> /\ failed = {}

SpecEval == InitEval /\ [][EvalThresholds]_vars

\* The violations of the report for the parameter reported as `name`.
EntriesFor(report_, name) ==
    IF report_ = NoDict THEN <<>>
    ELSE SelectSeq(report_.alerts, LAMBDA a : a.parameter = name)

\* The level the specification gives a value against a warning band and a
\* critical band: bands are closed, critical is tested first.
Level(v, warning, critical) ==
    IF v < critical[1] \/ v > critical[2] THEN "critical"
    ELSE IF v < warning[1] \/ v > warning[2] THEN "warning"
    ELSE "none"

ExpectedLevel(telemetry_, key) ==
    IF key \notin DOMAIN telemetry_ THEN "none"
    ELSE IF key = "temperature_c"
         THEN Level(telemetry_[key].num, <<150, 250>>, <<100, 300>>)
         ELSE Level(telemetry_[key].num, <<5, 25>>, <<0, 30>>)

Classified(report_, telemetry_, key, name) ==
    LET es == EntriesFor(report_, name)
        lv == ExpectedLevel(telemetry_, key)
    IN  IF lv = "none" THEN es = <<>>
        ELSE /\ Len(es) = 1
             /\ es[1].threshold_type = lv
             /\ es[1].value = telemetry_[key].num

Evaluated == steps = <<"threshold">> /\ "threshold" \notin failed

\* C5: check_thresholds classifies temperature and turbidity independently:
\* strictly outside the critical band gives exactly one critical violation of
\* the parameter, otherwise strictly outside the warning band exactly one
\* warning, inside both bands (edges included) or absent none; the result is
\* None exactly when neither parameter has a violation; what is reported for
\* one parameter is the same for every value of the other.
C5_ThresholdClassification ==
    Evaluated =>
        /\ Classified(report, cur, "temperature_c", "temperature")
        /\ Classified(report, cur, "turbidity", "turbidity")
        /\ (report = NoDict) <=> (ExpectedLevel(cur, "temperature_c") = "none"
                                  /\ ExpectedLevel(cur, "turbidity") = "none")
        /\ report # NoDict =>
              Len(report.alerts) = Len(EntriesFor(report, "temperature"))
                                   + Len(EntriesFor(report, "turbidity"))
        /\ \A other \in EnvInputs :
              ~ThresholdsRaise(other) =>
                /\ (Get(other, "temperature_c", NoDict) = Get(cur, "temperature_c", NoDict))
                     => EntriesFor(check_thresholds(other, now), "temperature")
                          = EntriesFor(report, "temperature")
                /\ (Get(other, "turbidity", NoDict) = Get(cur, "turbidity", NoDict))
                     => EntriesFor(check_thresholds(other, now), "turbidity")
                          = EntriesFor(report, "turbidity")

\* C5 witness: a warning temperature on the band's side of a critical
\* turbidity: two violations, one per parameter.
C5_Witness ==
    /\ Evaluated
    /\ {"temperature_c", "turbidity"} \subseteq DOMAIN cur
    /\ cur.temperature_c = Num(280) /\ cur.turbidity = Num(35)
    /\ report # NoDict
    /\ Len(report.alerts) = 2
    /\ report.alerts[1].threshold_type = "warning"
    /\ report.alerts[2].threshold_type = "critical"

\* ------------------------------------------------ properties of the pipeline
\* C3: when an active alert for (vehicle, kind) exists, the writer returns its
\* id and leaves the alerts table as it is (no insert, no change to the row);
\* so after every environmental call the vehicle has exactly one active
\* environmental alert, whose id the call returned.
C3_ExistingReturnedUnchanged ==
    [][ wcall'.n # wcall.n =>
          LET existing == ActiveIds(alerts, wcall'.auv_id, wcall'.type)
          IN  /\ existing # {} => (alerts' = alerts /\ wcall'.id \in existing)
              /\ ActiveIds(alerts', wcall'.auv_id, wcall'.type) = {wcall'.id}
      ]_vars

\* C3 witness: the same violating record was ingested twice, with timestamps
\* 1 and 2; the second environmental call has returned the id of the alert
\* the first one created, the vehicle's only active environmental alert.
C3_Witness ==
    /\ nrec = 2 /\ Len(telemetry) = 2
    /\ telemetry[1].timestamp = 1 /\ telemetry[2].timestamp = 2
    /\ telemetry[1].raw.temperature_c = Num(350) /\ cur = telemetry[2].raw
    /\ steps = <<"write", "threshold", "env_alert">>
    /\ wcall.type = "environmental" /\ wcall.auv_id = "AUV-1"
    /\ \E i \in 1..Len(alerts) :
         /\ ActiveRows(alerts, "AUV-1", "environmental") = {i}
         /\ alerts[i].id = wcall.id
         /\ alerts[i].payload.telemetry_id = 1

\* The severity the specification derives from a report's violations.
ExpectedSeverity(alerts_) ==
    IF \E i \in 1..Len(alerts_) : alerts_[i].threshold_type = "critical" THEN "critical"
    ELSE IF \E i \in 1..Len(alerts_) : alerts_[i].threshold_type = "warning" THEN "warning"
    ELSE "info"

\* C4: the environmental alert row stored for a report has severity critical
\* if any violation of the report is critical, else warning if any is
\* warning, else info.
C4_SeverityDerived ==
    \A i \in 1..Len(alerts) :
        alerts[i].type = "environmental"
            => alerts[i].severity = ExpectedSeverity(alerts[i].payload.alerts)

ExpectedGeom(telemetry_) ==
    IF "location" \in DOMAIN telemetry_
       /\ {"lat", "lon"} \subseteq DOMAIN telemetry_.location
    THEN [x |-> telemetry_.location.lon, y |-> telemetry_.location.lat]
    ELSE NoGeom

\* C8: once the ingest transaction of a record has committed (tid is set),
\* the telemetry row, its geometry and the vehicle's last_seen stay as
\* written whatever fails later while the record is processed.
C8_PointDurable ==
    tid # NoTid =>
        /\ tid \in 1..Len(telemetry)
        /\ telemetry[tid].id = tid
        /\ telemetry[tid].auv_id = cur.auv_id
        /\ telemetry[tid].timestamp = fromisoformat(cur.timestamp)
        /\ telemetry[tid].geom = ExpectedGeom(cur)
        /\ cur.auv_id \in DOMAIN auv_status
        /\ auv_status[cur.auv_id] = fromisoformat(cur.timestamp)

\* C8 witness: after the commit the environmental alert write failed and the
\* zone detector raised; the point with its geometry is in the table.
C8_Witness ==
    /\ tid # NoTid
    /\ failed = {"env_alert", "zone"}
    /\ pc = "recv"
    /\ telemetry[tid].geom # NoGeom
    /\ auv_status[cur.auv_id] = fromisoformat(cur.timestamp)

\* C8 witness, evaluator fault: check_thresholds raised after the commit.
C8_WitnessEvaluatorRaised ==
    /\ tid # NoTid /\ "threshold" \in failed /\ telemetry[tid].geom # NoGeom

Broadcasts == {"env_broadcast", "zone_broadcast"}

Before(a, b) ==
    \E i, j \in 1..Len(steps) : i < j /\ steps[i] \in a /\ steps[j] \in b

Occurs(a) == \E i \in 1..Len(steps) : steps[i] \in a

Rank(step) ==
    CASE step \in {"write", "write_failed"}         -> 1
      [] step = "threshold"                         -> 2
      [] step \in {"env_alert", "env_alert_failed"} -> 3
      [] step = "env_broadcast"                     -> 4
      [] step = "zone"                              -> 5
      [] step = "zone_broadcast"                    -> 6

C10_EnvBeforeZone ==
    \A w \in WS : \A i, j \in 1..Len(inbox[w]) :
        ( /\ inbox[w][i].type = "environmental_alert"
          /\ inbox[w][j].type = "zone_alert"
          /\ inbox[w][i].rec = inbox[w][j].rec ) => i < j

\* C10 witness: a subscriber holds both events of the second record.
C10_Witness ==
    \E w \in WS : \E i, j \in 1..Len(inbox[w]) :
        /\ inbox[w][i].type = "environmental_alert"
        /\ inbox[w][j].type = "zone_alert"
        /\ inbox[w][i].rec = 2 /\ inbox[w][j].rec = 2

\* ------------------------------------------------ the upstream connection
\* The sections of process_telemetry.
Processing == {"ingest", "threshold", "env_alert", "env_broadcast", "zone", "zone_broadcast"}

\* C16: no text frame ends the connection: whatever the frame holds, its
\* processing ends with the client reading the next frame, never with the
\* connection closed and a reconnect.
C16_MalformedFrameDropped ==
    [][ (pc \in Processing) => (pc' \in Processing \cup {"recv"}) ]_vars

\* C17: whatever ended the connection (a connection error, a close or error
\* message, an exception out of the read loop), the client sleeps
\* reconnect_delay seconds and then connects again; it never stops retrying.
C17_AlwaysRetries ==
    /\ [][ /\ (pc = "reconnect" /\ pc' # pc) =>
               (pc' = "sleep" /\ sleep'["upstream"] = reconnect_delay)
           /\ (pc' = "connect" /\ pc # "connect") =>
               (pc = "sleep" /\ sleep["upstream"] = 0)
           /\ (pc = "sleep" /\ sleep'["upstream"] # sleep["upstream"]) =>
               sleep'["upstream"] = sleep["upstream"] - 1
         ]_vars
    /\ (pc = "reconnect") ~> (pc = "connect")

\* C17 witness: the evaluator raised on a frame, the connection was given up,
\* and after the sleep the client is about to connect again.
C17_Witness ==
    /\ pc = "connect"
    /\ "threshold" \in failed
    /\ sleep["upstream"] = 0

\* C18: a frame is read only when the processing of the previous one has
\* completed: no section of process_telemetry, no broadcast of the upstream
\* task and no run of the zone detector is under way when the client reads.
C18_OneRecordAtATime ==
    pc \in {"recv", "connect", "reconnect", "sleep"} =>
        /\ bc["upstream"] = IdleBroadcast
        /\ lock # "upstream"
        /\ dz.pc \in {"idle", "returned", "raised"}

\* C18 witness: the second frame is being processed after the first went
\* through both broadcasts.
C18_Witness ==
    /\ nrec = 2 /\ pc = "ingest"
    /\ Len(acquired) = 2
    /\ acquired[1].type = "environmental_alert" /\ acquired[1].rec = 1
    /\ acquired[2].type = "zone_alert" /\ acquired[2].rec = 1

\* ------------------------------------------------- dead_auv_scanner
\* Faulty variant: a vehicle is overdue only when silent for more than the budget.
_overdue_auvs_strict(status, clock, timeout_s) ==
    { a \in DOMAIN status : clock - status[a] > timeout_s }

\* _overdue_auvs: the vehicles with now() - last_seen >= timeout_s.
_overdue_auvs(status, clock, timeout_s) ==
    { a \in DOMAIN status : clock - status[a] >= timeout_s }

\* The rows of a result set, in some order.
Orderings(S) ==
    { q \in [1..Cardinality(S) -> S] : \A i, j \in 1..Cardinality(S) : q[i] = q[j] => i = j }

\* asyncio.sleep(DEAD_AUV_SCAN_INTERVAL_SECONDS) starts (lines 67-68).
ScanSleeps == sleep' = [sleep EXCEPT !["scanner"] = DEAD_AUV_SCAN_INTERVAL_SECONDS]

\* Lines 27-35: a tick starts and reads the overdue vehicles with their
\* last_seen; with none, or on a store error (lines 63-65), it goes to sleep.
ScanRead ==
    /\ scan.pc = "tick"
    /\ scan.ticks < MaxTicks
    /\ \/ \E q \in Orderings(_overdue_auvs(auv_status, now, DEAD_AUV_TIMEOUT_SECONDS)) :
            LET rows == [k \in DOMAIN q |-> [auv_id |-> q[k], last_seen |-> auv_status[q[k]]]]
            IN  IF rows = <<>>
                THEN /\ scan' = [scan EXCEPT !.pc = "sleep", !.ticks = @ + 1,
                                             !.dead_auvs = <<>>, !.i = 0,
                                             !.called = <<>>, !.error = FALSE]
                     /\ ScanSleeps
                ELSE /\ scan' = [scan EXCEPT !.pc = "write", !.ticks = @ + 1,
                                             !.dead_auvs = rows, !.i = 1,
                                             !.called = <<>>, !.error = FALSE]
                     /\ UNCHANGED sleep
       \/ /\ scan' = [scan EXCEPT !.pc = "sleep", !.ticks = @ + 1,
                                   !.dead_auvs = <<>>, !.i = 0,
                                   !.called = <<>>, !.error = TRUE]
          /\ ScanSleeps
    /\ UNCHANGED <<dbVars, callVars, envVars, dz, upVars, hubVars, svcVars>>

\* Lines 47-57: create_dead_auv_alert_generic in its own transaction, committed.
ScanWriteCommit ==
    /\ scan.pc = "write"
    /\ LET d == scan.dead_auvs[scan.i]
       IN  \E out \in create_dead_auv_alert_generic(alerts, alert_seq, now, d.auv_id,
                                                    d.last_seen, DEAD_AUV_TIMEOUT_SECONDS) :
             /\ alerts' = out.alerts
             /\ alert_seq' = out.seq
             /\ wcall' = [n |-> wcall.n + 1, auv_id |-> d.auv_id,
                          type |-> "dead_auv", id |-> out.id]
             /\ scan' = [scan EXCEPT !.pc = "yield", !.called = Append(@, d.auv_id),
                                     !.written = @ \cup {d.auv_id}]
    /\ UNCHANGED <<telemetry, zones, auv_status, now, sess, envVars, dz, upVars, hubVars, sleep, svcVars>>

\* Lines 58-59: the write failed; the error is logged and the payload is
\* yielded all the same.
ScanWriteFail ==
    /\ scan.pc = "write"
    /\ scan' = [scan EXCEPT !.pc = "yield",
                            !.called = Append(@, scan.dead_auvs[scan.i].auv_id)]
    /\ UNCHANGED <<dbVars, callVars, envVars, dz, upVars, hubVars, sleep, svcVars>>

\* Lines 38-43 and main.py 286-290: the event broadcast_dead_auv publishes for
\* the payload the scanner yields.
ScanFrame ==
    LET d == scan.dead_auvs[scan.i]
    IN  Frame("dead_auv_alert",
              [type |-> "dead_auv", auv_id |-> d.auv_id, last_seen |-> d.last_seen,
               threshold_seconds |-> DEAD_AUV_TIMEOUT_SECONDS],
              now, scan.ticks)

\* Line 61 and main.py 285-291: the payload is yielded to broadcast_dead_auv,
\* which awaits manager.broadcast before it asks the scanner for the next one.
ScanYield ==
    /\ scan.pc = "yield"
    /\ \/ /\ BroadcastAcquire("scanner", ScanFrame)
          /\ UNCHANGED <<scan, sleep>>
       \/ /\ BroadcastSend("scanner")
          /\ UNCHANGED <<scan, sleep>>
       \/ /\ BroadcastCleanupBlocks("scanner")
          /\ UNCHANGED <<scan, sleep>>
       \/ /\ BroadcastReturn("scanner")
          /\ IF scan.i < Len(scan.dead_auvs)
             THEN scan' = [scan EXCEPT !.pc = "write", !.i = @ + 1] /\ UNCHANGED sleep
             ELSE scan' = [scan EXCEPT !.pc = "sleep"] /\ ScanSleeps
    /\ UNCHANGED <<dbVars, callVars, envVars, dz, upVars, svcVars>>

\* A second of the scanner's sleep passes.
ScanSleep ==
    /\ scan.pc = "sleep"
    /\ sleep["scanner"] > 0
    /\ sleep' = [sleep EXCEPT !["scanner"] = @ - 1]
    /\ UNCHANGED <<dbVars, callVars, envVars, dz, upVars, hubVars, scan, svcVars>>

\* Line 26: the sleep is over, the loop is back at the start of a tick.
ScanWake ==
    /\ scan.pc = "sleep"
    /\ sleep["scanner"] = 0
    /\ scan' = [scan EXCEPT !.pc = "tick"]
    /\ UNCHANGED <<dbVars, callVars, envVars, dz, upVars, hubVars, sleep, svcVars>>

\* Faulty variant: a report of a vehicle resolves its active dead_auv alerts.
VehicleReports_resolves ==
    /\ Len(telemetry) < MaxPoints
    /\ \E v \in AUVs, ts \in {now - 1, now} :
         LET w == ingest_telemetry(telemetry, auv_status, [auv_id |-> v, timestamp |-> Iso(ts)])
         IN  /\ telemetry' = w.telemetry
             /\ auv_status' = w.auv_status
             /\ alerts' = [k \in 1..Len(alerts) |->
                             IF alerts[k].auv_id = v /\ alerts[k].type = "dead_auv"
                             THEN [alerts[k] EXCEPT !.status = "resolved", !.ended_at = now]
                             ELSE alerts[k]]
    /\ UNCHANGED <<zones, alert_seq, now, callVars, envVars, dz, upVars, hubVars, taskVars, svcVars>>

\* A vehicle reports: the ingest transaction of process_telemetry commits a
\* point and moves the vehicle's last_seen to the record's timestamp, which is
\* the current time or, for a record that was delayed, a second earlier.
VehicleReports ==
    /\ Len(telemetry) < MaxPoints
    /\ \E v \in AUVs, ts \in {now - 1, now} :
         LET w == ingest_telemetry(telemetry, auv_status, [auv_id |-> v, timestamp |-> Iso(ts)])
         IN  /\ telemetry' = w.telemetry
             /\ auv_status' = w.auv_status
    /\ UNCHANGED <<zones, alerts, alert_seq, now, callVars, envVars, dz, upVars, hubVars, taskVars, svcVars>>

Scanner == ScanRead \/ ScanWriteCommit \/ ScanWriteFail \/ ScanYield \/ ScanSleep \/ ScanWake

NextScan == Scanner \/ VehicleReports \/ Tick \/ Subscribers({"w1"})

SpecScan == InitQuiet /\ [][NextScan]_vars

\* The event loop runs the scanner whenever it can take a step.
SpecScanFair == SpecScan /\ WF_vars(Scanner)

\* The row of the alerts table with the given id.
AlertRow(tbl, id) == tbl[CHOOSE k \in 1..Len(tbl) : tbl[k].id = id]

C20_ScannerLive ==
    (scan.pc # "tick") ~> (scan.pc = "tick")

\* ------------------------------------------------------ alerts are kept
\* C21: no step resolves an alert: the alerts table only grows, its rows never
\* change, and every row has status 'active' and no ended_at; so a dead_auv
\* alert outlives the vehicle's return, and a later silence of the vehicle
\* finds it and adds none.
C21_NeverResolved ==
    /\ [][ /\ Len(alerts') >= Len(alerts)
           /\ \A k \in 1..Len(alerts) : alerts'[k] = alerts[k] ]_vars
    /\ [](\A k \in 1..Len(alerts) :
            alerts[k].status = "active" /\ alerts[k].ended_at = None)
    /\ [](\A v \in AUVs : ActiveCount(alerts, v, "dead_auv") <= 1)

\* C21 witness: AUV-1 was alerted as dead, reported again after the alert was
\* raised, fell silent again, and the next tick's call returned the old alert.
C21_Witness ==
    /\ Len(alerts) = 1 /\ alerts[1].type = "dead_auv" /\ alerts[1].auv_id = "AUV-1"
    /\ alerts[1].status = "active" /\ alerts[1].started_at = 0
    /\ alerts[1].payload.last_seen = -1
    /\ scan.ticks = 2 /\ scan.pc = "yield" /\ scan.called = <<"AUV-1">>
    /\ scan.dead_auvs[1].last_seen = 0
    /\ \E k \in 1..Len(telemetry) :
          telemetry[k].auv_id = "AUV-1" /\ telemetry[k].timestamp = 0 /\ k > 1
    /\ now = 1
    /\ wcall.n = 2 /\ wcall.id = alerts[1].id

\* ------------------------------------------------------- GET /insights
SUMMARY_MODES_ALLOWED == {"timeseries", "stats"}
TIMESERIES_ALLOWED_FIELDS == {"temperature_c", "depth_m", "velocity_knots", "location"}

\* The defaults and the bounds (ge, le) the route declares for its parameters.
QueryBounds ==
    [limit            |-> [default |-> 20, ge |-> 1,  le |-> 100],
     window_minutes   |-> [default |-> 20, ge |-> 1,  le |-> 1440],
     timeseries_limit |-> [default |-> 30, ge |-> 10, le |-> 200]]

\* A comma-separated parameter is its pieces, the result of split(','); the
\* empty text (and an absent timeseries_fields) has no piece.
\* [m.strip() for m in text.split(',') if m.strip()]
SplitList(pieces) ==
    LET strip(piece) == CASE piece = " stats" -> "stats"
                          [] piece = " "      -> ""
                          [] OTHER            -> piece
        stripped == [k \in 1..Len(pieces) |-> strip(pieces[k])]
    IN  SelectSeq(stripped, LAMBDA m : m # "")

\* max(lo, min(n, hi))
Clamp(n, lo, hi) ==
    LET least == IF n <= hi THEN n ELSE hi
    IN  IF lo >= least THEN lo ELSE least

\* The WHERE clause shared by the alerts listing and the stats queries: a
\* filter is applied when its parameter is truthy.
AlertsWhere(tbl, p) ==
    { tbl[k] : k \in { j \in 1..Len(tbl) :
                        /\ (p.auv_id # None /\ p.auv_id # "") => tbl[j].auv_id = p.auv_id
                        /\ (p.type # None /\ p.type # "") => tbl[j].type = p.type } }

\* ORDER BY started_at DESC, id DESC.
RECURSIVE OrderNewestFirst(_)
OrderNewestFirst(S) ==
    IF S = {} THEN <<>>
    ELSE LET Newer(r, q) == \/ r.started_at > q.started_at
                            \/ r.started_at = q.started_at /\ r.id > q.id
             m == CHOOSE r \in S : \A q \in S \ {r} : Newer(r, q)
         IN  <<m>> \o OrderNewestFirst(S \ {m})

\* Faulty variant: the oldest matching rows, the cut made in insertion order
\* before the rows are ordered.
AlertsQuery_limit_first(tbl, p, limit) ==
    LET match == SelectSeq(tbl, LAMBDA r : r \in AlertsWhere(tbl, p))
        cut == SubSeq(match, 1, IF limit <= Len(match) THEN limit ELSE Len(match))
    IN  OrderNewestFirst({ cut[k] : k \in 1..Len(cut) })

\* The rows of the alerts listing: WHERE, ORDER BY, LIMIT.
AlertsQuery(tbl, p, limit) ==
    LET ordered == OrderNewestFirst(AlertsWhere(tbl, p))
    IN  SubSeq(ordered, 1, IF limit <= Len(ordered) THEN limit ELSE Len(ordered))

\* _parse_point_wkt: (lon, lat) of "POINT(lon lat)", or None.
_parse_point_wkt(wkt) ==
    IF wkt = NoWkt THEN None
    ELSE IF wkt[1] # "POINT" \/ Len(wkt) # 3 THEN None
    ELSE [lon |-> wkt[2], lat |-> wkt[3]]

\* Faulty variant: the timeseries of every vehicle when none was asked for.
TimeseriesSummary_all_vehicles(tel, p, window_start, ts_limit) ==
    LET match == { tel[k] : k \in { j \in 1..Len(tel) :
                      /\ (p.auv_id # None /\ p.auv_id # "") => tel[j].auv_id = p.auv_id
                      /\ tel[j].timestamp >= window_start } }
        rows == { SubSeq(o, 1, IF ts_limit <= Len(o) THEN ts_limit ELSE Len(o)) :
                    o \in { o \in Orderings(match) :
                              \A i, j \in 1..Len(o) : i < j => o[i].timestamp <= o[j].timestamp } }
    IN  { [key |-> "timeseries", reads |-> {"telemetry"},
           value |-> [auv_id |-> p.auv_id, window_minutes |-> p.window_minutes,
                      fields |-> <<>>,
                      points |-> [k \in 1..Len(r) |-> [timestamp |-> Iso(r[k].timestamp)]],
                      count |-> Len(r)]] : r \in rows }

\* The timeseries section of fetch_insights: the entries it can add to the
\* summaries, each with the tables it read.  Rows of equal timestamp come in
\* any order, and so do the fields when the request names none.
TimeseriesSummary(tel, p, window_start, ts_limit) ==
    IF p.auv_id = None \/ p.auv_id = ""
    THEN { [key |-> "timeseries_error", reads |-> {},
            value |-> "timeseries summary requires auv_id"] }
    ELSE
    LET fieldLists ==
            IF p.timeseries_fields # <<>>
            THEN { SelectSeq(p.timeseries_fields, LAMBDA f : f \in TIMESERIES_ALLOWED_FIELDS) }
            ELSE Orderings(TIMESERIES_ALLOWED_FIELDS)
        match == { tel[k] : k \in { j \in 1..Len(tel) :
                      tel[j].auv_id = p.auv_id /\ tel[j].timestamp >= window_start } }
        rows == { SubSeq(o, 1, IF ts_limit <= Len(o) THEN ts_limit ELSE Len(o)) :
                    o \in { o \in Orderings(match) :
                              \A i, j \in 1..Len(o) : i < j => o[i].timestamp <= o[j].timestamp } }
        pt(row, requested_fields) ==
            [f \in {"timestamp"} \cup { requested_fields[k] : k \in 1..Len(requested_fields) } |->
               CASE f = "timestamp" -> Iso(row.timestamp)
                 [] f = "location"  -> _parse_point_wkt(row.location_wkt)
                 [] OTHER           -> Get(row.raw, f, None)]
    IN  { [key |-> "timeseries", reads |-> {"telemetry"},
           value |-> [auv_id |-> p.auv_id, window_minutes |-> p.window_minutes,
                      fields |-> fl,
                      points |-> [k \in 1..Len(r) |-> pt(r[k], fl)],
                      count |-> Len(r)]] : fl \in fieldLists, r \in rows }

\* stats_sql (lines 172-181): COUNT(*), MAX(started_at) and the count of the
\* rows in the window, over the filtered alerts.
StatsTotals(tbl, p, window_start) ==
    LET rows == AlertsWhere(tbl, p)
        latest == CHOOSE r \in rows : \A q \in rows : r.started_at >= q.started_at
    IN  [total_alerts     |-> Cardinality(rows),
         alerts_in_window |-> Cardinality({ r \in rows : r.started_at >= window_start }),
         latest_alert_timestamp |-> IF rows = {} THEN None ELSE Iso(latest.started_at)]

\* by_type_sql (lines 182-189, 193-194): the filtered alerts counted by type.
StatsByType(tbl, p) ==
    LET rows == AlertsWhere(tbl, p)
    IN  [k \in { r.type : r \in rows } |-> Cardinality({ r \in rows : r.type = k })]

\* The stats entry built from the results of the two statements (lines 195-201).
StatsEntry(p, totals, by_type) ==
    [window_minutes   |-> p.window_minutes,
     total_alerts     |-> totals.total_alerts,
     alerts_in_window |-> totals.alerts_in_window,
     latest_alert_timestamp |-> totals.latest_alert_timestamp,
     alerts_by_type   |-> by_type]

\* The stats section of fetch_insights when nothing is committed between its
\* two statements.
StatsSummary(tbl, p, window_start) ==
    StatsEntry(p, StatsTotals(tbl, p, window_start), StatsByType(tbl, p))

\* Faulty variant: every summary computed whatever the request selects.
ActiveModes_all(p) == <<"timeseries", "stats">>

\* Lines 60-66: the selected modes, each once, the unknown ones dropped.
ActiveModes(p) ==
    LET given == p.summary_modes
        once == SelectSeq([k \in 1..Len(given) |->
                             IF \E j \in 1..(k - 1) : given[j] = given[k] THEN "" ELSE given[k]],
                          LAMBDA m : m # "")
    IN  SelectSeq(once, LAMBDA m : m \in SUMMARY_MODES_ALLOWED)

\* fetch_insights: the results it can return for the parameters, each with the
\* tables it read.
fetch_insights(p, tbl, tel, clock) ==
    LET limit == Clamp(p.limit, 1, 100)
        timeseries_limit == Clamp(p.timeseries_limit, 10, 200)
        modes == { ActiveModes(p)[k] : k \in 1..Len(ActiveModes(p)) }
        rows == AlertsQuery(tbl, p, limit)
        alerts_ == [k \in 1..Len(rows) |->
                      [auv_id |-> rows[k].auv_id, type |-> rows[k].type,
                       severity |-> rows[k].severity, status |-> rows[k].status,
                       message |-> rows[k].message, started_at |-> Iso(rows[k].started_at)]]
        window_start == clock - p.window_minutes * 60
        timeseries == IF "timeseries" \in modes
                      THEN TimeseriesSummary(tel, p, window_start, timeseries_limit)
                      ELSE { [key |-> "", reads |-> {}, value |-> None] }
        keys(t) == (IF t.key # "" THEN {t.key} ELSE {})
                     \cup (IF "stats" \in modes THEN {"stats"} ELSE {})
    IN  IF ~p.summary
        THEN { [body |-> [alerts |-> alerts_], reads |-> {"alerts"}] }
        ELSE { [body |-> [alerts |-> alerts_,
                          summaries |-> [k \in keys(t) |->
                                           IF k = "stats" THEN StatsSummary(tbl, p, window_start)
                                           ELSE t.value]],
                reads |-> {"alerts"} \cup t.reads] : t \in timeseries }

\* Faulty variant: the route answering an unknown type with an empty listing.
ValidationError_lenient(q) == NoDict

\* What the route answers before any query is made, NoDict when the request
\* passes: 422 from the declared bounds of the integers, then 400 for an
\* unknown type, then 400 for unknown summary modes.
ValidationError(q) ==
    LET outside == { n \in DOMAIN QueryBounds :
                       \/ Get(q, n, QueryBounds[n].default) < QueryBounds[n].ge
                       \/ Get(q, n, QueryBounds[n].default) > QueryBounds[n].le }
        type == Get(q, "type", None)
        summary_modes_list == SplitList(Get(q, "summary_modes", <<"timeseries">>))
        invalid == SelectSeq(summary_modes_list, LAMBDA m : m \notin SUMMARY_MODES_ALLOWED)
    IN  IF outside # {}
        THEN [status |-> 422, detail |-> [loc |-> outside], reads |-> {}]
        ELSE IF type # None /\ type # "" /\ type \notin ALERT_TYPES
        THEN [status |-> 400, reads |-> {},
              detail |-> [message |-> "Invalid type", allowed |-> ALERT_TYPES]]
        ELSE IF invalid # <<>>
        THEN [status |-> 400, reads |-> {},
              detail |-> [message |-> "Invalid summary_modes", invalid |-> invalid,
                          allowed |-> SUMMARY_MODES_ALLOWED]]
        ELSE NoDict

\* The route GET /insights: the responses it can give to the query q.
insights(q, tbl, tel, clock) ==
    IF ValidationError(q) # NoDict THEN { ValidationError(q) }
    ELSE
    LET params == [auv_id           |-> Get(q, "auv_id", None),
                   type             |-> Get(q, "type", None),
                   limit            |-> Get(q, "limit", QueryBounds.limit.default),
                   summary          |-> Get(q, "summary", "false") \in {"true", "1", "yes", "on"},
                   summary_modes    |-> SplitList(Get(q, "summary_modes", <<"timeseries">>)),
                   window_minutes   |-> Get(q, "window_minutes", QueryBounds.window_minutes.default),
                   timeseries_limit |-> Get(q, "timeseries_limit",
                                            QueryBounds.timeseries_limit.default),
                   timeseries_fields |-> SplitList(Get(q, "timeseries_fields", <<>>))]
    IN  { [status |-> 200, body |-> o.body, reads |-> o.reads] :
            o \in fetch_insights(params, tbl, tel, clock) }

\* The documented request: a vehicle, both modes, an hour, five points of two
\* fields, and no summary parameter.
DocumentedRequest ==
    [auv_id |-> "AUV-1", summary_modes |-> <<"timeseries", "stats">>,
     window_minutes |-> 60, timeseries_limit |-> 5,
     timeseries_fields |-> <<"temperature_c", "location">>]

\* The queries the clients make.
Requests ==
    LET Vehicle == {<<>>, [auv_id |-> "AUV-1"]}
        Kind    == {<<>>, [type |-> "zone_violation"], [type |-> "bogus"], [type |-> ""]}
        Limit   == { [limit |-> l] : l \in {0, 1, 2, 500} }
        Summary == {<<>>, [summary |-> "true"]}
        Modes   == {<<>>} \cup { [summary_modes |-> m] :
                       m \in { <<>>, <<"stats">>, <<"timeseries", " stats", "">>,
                               <<"timeseries", "bogus">> } }
        Fields  == {[timeseries_fields |-> <<"temperature_c", "location">>],
                    [timeseries_fields |-> <<"locationZ">>]}
        Sizes   == { <<60, 5>>, <<60, 10>>, <<0, 10>>, <<1441, 10>>, <<60, 201>> }
    IN  { a @@ k @@ l : a \in Vehicle, k \in Kind, l \in Limit }
          \cup { a @@ s @@ m @@ f : a \in Vehicle, s \in Summary, m \in Modes, f \in Fields }
          \cup { [auv_id |-> "AUV-1", summary |-> "true"],
                 [auv_id |-> "AUV-1", type |-> "dead_auv", summary |-> "true",
                  summary_modes |-> <<"stats", "stats">>] }
          \cup { [DocumentedRequest EXCEPT !.window_minutes = z[1], !.timeseries_limit = z[2]] @@ s :
                   z \in Sizes, s \in Summary }

\* The ingest transaction of process_telemetry commits a record.
TelemetryStored ==
    /\ resp = NoDict
    /\ Len(telemetry) < MaxPoints
    /\ \E f \in { f \in Frames : IsIso(f.timestamp) /\ IsNumber(f.temperature_c) } :
         LET w == ingest_telemetry(telemetry, auv_status, f)
         IN  /\ telemetry' = w.telemetry
             /\ auv_status' = w.auv_status
    /\ UNCHANGED <<zones, alerts, alert_seq, now, callVars, envVars, dz, upVars, hubVars, taskVars, svcVars>>

\* A client calls GET /insights and is answered.
InsightsRequest ==
    /\ resp = NoDict
    /\ req' \in Requests
    /\ resp' \in insights(req', alerts, telemetry, now)
    /\ UNCHANGED <<dbVars, callVars, envVars, dz, upVars, hubVars, taskVars, app>>

NextInsights ==
    \/ resp = NoDict /\ (WriterZone \/ WriterDead \/ Tick)
    \/ TelemetryStored
    \/ InsightsRequest

SpecInsights == InitQuiet /\ [][NextInsights]_vars

\* ------------------------------------------------------ claims on /insights
\* The request with its integers brought into their declared ranges.
ClampedRequest(q) ==
    [k \in DOMAIN q |->
       IF k \in DOMAIN QueryBounds THEN Clamp(q[k], QueryBounds[k].ge, QueryBounds[k].le)
       ELSE q[k]]

Answered == resp # NoDict

\* C22: GET /insights never rejects a request because limit, window_minutes
\* or timeseries_limit is outside its bounds; the answer is the one the request
\* with the value clamped to [1,100], [1,1440], [10,200] gets.
C22_ClampedNotRejected ==
    Answered =>
      /\ resp.status # 422
      /\ resp \in insights(ClampedRequest(req), alerts, telemetry, now)

\* The entries of summary_modes that are not blank, and the unknown ones.
ModeEntries(q) == SplitList(Get(q, "summary_modes", <<"timeseries">>))
UnknownModes(q) == { ModeEntries(q)[k] : k \in 1..Len(ModeEntries(q)) } \ SUMMARY_MODES_ALLOWED

ListsAllowed(r, allowed) == "allowed" \in DOMAIN r.detail /\ r.detail.allowed = allowed

IntegersInBounds(q) == ClampedRequest(q) = q

Served == Answered /\ resp.status = 200

\* summary as the route parses it, and the modes the request selects.
SummaryOn(q) == Get(q, "summary", "false") = "true"
SelectedModes(q) == { ModeEntries(q)[k] : k \in 1..Len(ModeEntries(q)) }

C25_DocumentedRequestServed ==
    (Answered /\ req = DocumentedRequest) =>
      /\ resp.status = 200
      /\ {"alerts", "summaries"} \subseteq DOMAIN resp.body
      /\ {"timeseries", "stats"} \subseteq DOMAIN resp.body.summaries
      /\ LET points == resp.body.summaries.timeseries.points
         IN  /\ Len(points) <= 5
             /\ \A k \in 1..Len(points) :
                  DOMAIN points[k] = {"timestamp", "temperature_c", "location"}
      /\ {"total_alerts", "alerts_in_window", "alerts_by_type"}
           \subseteq DOMAIN resp.body.summaries.stats

\* The alerts a request's filters keep.
Matching(q) ==
    { k \in 1..Len(alerts) :
        /\ Get(q, "auv_id", "") # "" => alerts[k].auv_id = q.auv_id
        /\ Get(q, "type", "") # "" => alerts[k].type = q.type }

\* C26: when summaries are emitted with timeseries selected and no vehicle
\* named, they carry the stub timeseries_error and no timeseries entry, no
\* telemetry row is read, and a selected stats summary is still computed.
C26_TimeseriesNeedsVehicle ==
    (Served /\ SummaryOn(req) /\ "timeseries" \in SelectedModes(req)
       /\ Get(req, "auv_id", "") = "") =>
      /\ "timeseries" \notin DOMAIN resp.body.summaries
      /\ "timeseries_error" \in DOMAIN resp.body.summaries
      /\ resp.body.summaries.timeseries_error = "timeseries summary requires auv_id"
      /\ "telemetry" \notin resp.reads
      /\ "stats" \in SelectedModes(req) =>
           /\ "stats" \in DOMAIN resp.body.summaries
           /\ resp.body.summaries.stats.total_alerts = Cardinality(Matching(req))
           /\ DOMAIN resp.body.summaries.stats.alerts_by_type
                = { alerts[k].type : k \in Matching(req) }

\* Both modes without a vehicle, while telemetry and alerts are stored.
C26_Witness ==
    /\ Served
    /\ SummaryOn(req)
    /\ SelectedModes(req) = {"timeseries", "stats"}
    /\ "auv_id" \notin DOMAIN req
    /\ Len(telemetry) >= 1
    /\ DOMAIN resp.body.summaries = {"timeseries_error", "stats"}
    /\ resp.body.summaries.stats.total_alerts >= 2

\* C27: the alerts list holds only alerts matching the vehicle filter and the
\* kind filter when each is set, is ordered by started_at descending then id
\* descending, has at most the clamped limit entries, and is the head of that
\* order: no matching alert newer than a returned one is left out.
C27_AlertsListing ==
    Served =>
      LET L == resp.body.alerts
          limit == Get(ClampedRequest(req), "limit", QueryBounds.limit.default)
          newer(i, j) == \/ alerts[i].started_at > alerts[j].started_at
                         \/ alerts[i].started_at = alerts[j].started_at
                              /\ alerts[i].id > alerts[j].id
          shown(k, e) == /\ e.auv_id = alerts[k].auv_id /\ e.type = alerts[k].type
                         /\ e.severity = alerts[k].severity /\ e.status = alerts[k].status
                         /\ e.message = alerts[k].message
                         /\ e.started_at = Iso(alerts[k].started_at)
      IN  /\ Len(L) <= limit
          /\ \E S \in SUBSET Matching(req) : \E o \in Orderings(S) :
               /\ Len(o) = Len(L)
               /\ \A k \in 1..Len(L) : shown(o[k], L[k])
               /\ \A i, j \in 1..Len(o) : i < j => newer(o[i], o[j])
               /\ \A m \in Matching(req) \ S : \A k \in 1..Len(o) : newer(o[k], m)
               /\ Len(L) < limit => S = Matching(req)

\* One alert of the vehicle asked for, the newer of its two, while a still
\* newer alert of another vehicle is stored.
C27_Witness ==
    /\ Served
    /\ Get(req, "auv_id", "") = "AUV-1" /\ Get(req, "limit", 0) = 1
    /\ Cardinality(Matching(req)) = 2
    /\ Len(alerts) = 3 /\ alerts[3].auv_id = "AUV-2" /\ alerts[3].started_at = 1
    /\ alerts[1].auv_id = "AUV-1" /\ alerts[1].started_at = 0
    /\ alerts[2].auv_id = "AUV-1" /\ alerts[2].started_at = 0
    /\ Len(resp.body.alerts) = 1
    /\ resp.body.alerts[1].type = alerts[2].type

\* ------------------------------------------------ claims on process_telemetry
\* The record being processed carries a timestamp that fromisoformat refuses.
UnparseableTimestamp ==
    /\ cur # NoDict /\ IsObject(cur)
    /\ "timestamp" \in DOMAIN cur
    /\ ~IsIso(cur.timestamp)

\* C28: a record whose timestamp cannot be parsed is rejected by the ingestor:
\* no telemetry row is inserted for it and the vehicle's last_seen is left as
\* it was, through every step of the record's processing.
C28_BadTimestampRejected ==
    [][ (pc \in Processing /\ UnparseableTimestamp /\ nrec' = nrec) =>
          /\ telemetry' = telemetry
          /\ auv_status' = auv_status
          /\ tid' = NoTid ]_vars

\* The second record of a vehicle has a bad timestamp and has been processed
\* to its end; the row and the last_seen of its first record stand.
C28_Witness ==
    /\ nrec = 2 /\ pc = "recv"
    /\ UnparseableTimestamp
    /\ steps # <<>> /\ steps[1] = "write_failed"
    /\ Len(telemetry) = 1
    /\ telemetry[1].auv_id = cur.auv_id
    /\ auv_status[cur.auv_id] = telemetry[1].timestamp

\* The environmental_alert events published for the n-th record.
EnvEvents(n) ==
    { k \in 1..Len(acquired) :
        acquired[k].type = "environmental_alert" /\ acquired[k].rec = n }

\* The record's environmental section is behind the task.
PastEnvironmental ==
    \/ pc \in {"zone", "zone_broadcast"}
    \/ pc \in {"recv", "connect", "reconnect", "sleep"} /\ "threshold" \in Members(steps)

\* C30: for every record for which the evaluator returned a report exactly
\* one environmental_alert event is published to the hub, whether the alert
\* writer inserted an alert or returned an existing one; for a record with no
\* report none is published.
C30_OneEventPerReport ==
    /\ \A n \in 1..nrec : Cardinality(EnvEvents(n)) <= 1
    /\ \A k \in 1..Len(acquired) :
         acquired[k].type = "environmental_alert" => acquired[k].data # NoDict
    /\ pc \in {"ingest", "threshold", "env_alert"} => EnvEvents(nrec) = {}
    /\ PastEnvironmental =>
         IF report # NoDict
         THEN /\ Cardinality(EnvEvents(nrec)) = 1
              /\ \A k \in EnvEvents(nrec) : acquired[k].data = report
         ELSE EnvEvents(nrec) = {}

\* Two records of one vehicle were reported on; the second alert write
\* returned the alert of the first, and each record has its event.
C30_Witness ==
    /\ nrec = 2 /\ PastEnvironmental
    /\ report # NoDict
    /\ wcall.n = 2 /\ Len(alerts) = 1 /\ alerts[1].type = "environmental"
    /\ Members(steps) \cap {"env_alert"} # {}
    /\ EnvEvents(1) # {} /\ EnvEvents(2) # {}

\* ------------------------------------------------------------- shutdown
\* lifespan after its yield (lines 33-35): the service prints that it shuts
\* down.  The two tasks were started without keeping a handle on them and
\* nothing is sent to them.
Shutdown ==
    /\ app = "serving"
    /\ app' = "shutdown"
    /\ UNCHANGED <<dbVars, callVars, envVars, dz, upVars, hubVars, taskVars, req, resp>>

\* The upstream task without frames: it connects, loses the connection,
\* sleeps and connects again.
UpstreamLink == Connect \/ RecvClosed \/ Reconnect \/ UpstreamSleep \/ UpstreamWake

NextLife == Scanner \/ VehicleReports \/ Subscribers({"w1"}) \/ UpstreamLink \/ Shutdown

SpecLife == InitQuiet /\ [][NextLife]_vars

\* C29: on shutdown both background tasks are cancelled and end at their
\* next suspension point: once the service shuts down, a task that is
\* suspended in its sleep does not resume (the scanner starts no further
\* tick, the upstream client makes no further connection attempt).
C29_TasksEndOnShutdown ==
    [][ app = "shutdown" =>
          /\ scan.pc = "sleep" => scan'.pc # "tick"
          /\ pc = "sleep" => pc' # "connect" ]_vars

\* ------------------------------------------------- the scanner's payloads
\* The dead_auv_alert events published in tick n for vehicle v.
DeadEvents(n, v) ==
    { k \in 1..Len(acquired) :
        /\ acquired[k].type = "dead_auv_alert"
        /\ acquired[k].rec = n
        /\ acquired[k].data.auv_id = v }

\* The vehicles the current tick found overdue.
OverdueInTick == { scan.dead_auvs[k].auv_id : k \in 1..Len(scan.dead_auvs) }

\* C31: in each tick exactly one dead_auv_alert payload goes to the hub for
\* every vehicle overdue in that tick, also when its alert was de-duplicated,
\* so a silent vehicle is published again in every tick while it keeps one
\* active dead_auv alert; a vehicle that is not overdue in a tick gets none.
\* The last conjunct: the tick is never halted for good (its broadcast waiting
\* for the lock it holds) while overdue vehicles of the tick are still
\* without their payload.
C31_PayloadPerOverdueVehicle ==
    /\ \A n \in 1..scan.ticks : \A v \in AUVs : Cardinality(DeadEvents(n, v)) <= 1
    /\ \A v \in AUVs \ OverdueInTick : DeadEvents(scan.ticks, v) = {}
    /\ (scan.ticks >= 1 /\ scan.pc \in {"sleep", "tick"}) =>
          \A v \in OverdueInTick : Cardinality(DeadEvents(scan.ticks, v)) = 1
    /\ \A k \in 1..scan.i - 1 : k <= Len(scan.dead_auvs) =>
          Cardinality(DeadEvents(scan.ticks, scan.dead_auvs[k].auv_id)) = 1
    /\ \A v \in AUVs : ActiveCount(alerts, v, "dead_auv") <= 1
    /\ bc["scanner"].i = -1 => scan.i = Len(scan.dead_auvs)

\* ------------------------------------------------------------ last_seen
\* The vehicles with a telemetry row, and the latest row of one.
Ingested == { telemetry[k].auv_id : k \in 1..Len(telemetry) }
LastRow(v) ==
    CHOOSE k \in 1..Len(telemetry) :
        /\ telemetry[k].auv_id = v
        /\ \A j \in 1..Len(telemetry) : telemetry[j].auv_id = v => j <= k

\* C32: after any sequence of successful ingests the last_seen of a vehicle
\* is the timestamp of its most recently ingested record, also when that is
\* earlier than the value stored before; auv_status has one row for each
\* vehicle ever ingested and for no other.
C32_LastWriterWins ==
    /\ DOMAIN auv_status = Ingested
    /\ \A v \in Ingested : auv_status[v] = telemetry[LastRow(v)].timestamp

\* A delayed record came after a fresh one: last_seen went back.
C32_Witness ==
    \E v \in Ingested : \E k \in 1..Len(telemetry) :
        /\ telemetry[k].auv_id = v
        /\ k < LastRow(v)
        /\ telemetry[k].timestamp > telemetry[LastRow(v)].timestamp
        /\ auv_status[v] = telemetry[LastRow(v)].timestamp

\* --------------------------------------------------- the ingest transaction
\* C33: the ingestor's writes for one record are atomic.  The row, its
\* geometry and the last_seen upsert appear together in one step or not at
\* all, so every state other transactions can see has all of them or none; and
\* when the transaction fails no point id is obtained and the zone evaluation
\* is not run for the record.
C33_IngestAtomic ==
    /\ [][ /\ telemetry' # telemetry /\ Len(telemetry') # Len(telemetry) =>
                /\ Len(telemetry') = Len(telemetry) + 1
                /\ tid' = telemetry'[Len(telemetry')].id
                /\ auv_status'[telemetry'[Len(telemetry')].auv_id]
                     = telemetry'[Len(telemetry')].timestamp
           /\ auv_status' # auv_status => Len(telemetry') = Len(telemetry) + 1
         ]_vars
    /\ [](\A k \in 1..Len(telemetry) :
            /\ telemetry[k].auv_id \in DOMAIN auv_status
            /\ telemetry[k].geom # NoGeom <=> telemetry[k].location_wkt # NoWkt
            /\ telemetry[k].location_wkt # NoWkt =>
                 /\ telemetry[k].geom.x = telemetry[k].location_wkt[2]
                 /\ telemetry[k].geom.y = telemetry[k].location_wkt[3])
    /\ []("ingest" \in failed =>
            /\ tid = NoTid
            /\ dz = IdleDetect
            /\ "zone" \notin Members(steps))

\* The ingest of the second record failed, the record carried a position and a
\* zone, and its processing ended without the zone evaluation; the first
\* record's row stands with its geometry.
C33_Witness ==
    /\ nrec = 2 /\ pc = "recv"
    /\ "ingest" \in failed
    /\ IsObject(cur) /\ {"location", "zone_id", "timestamp"} \subseteq DOMAIN cur
    /\ IsIso(cur.timestamp)
    /\ "threshold" \in Members(steps)
    /\ Len(telemetry) = 1 /\ telemetry[1].geom # NoGeom
    /\ auv_status[telemetry[1].auv_id] = telemetry[1].timestamp

\* ------------------------------------------------ fetch_insights, called
\* The parameters fetch_insights is called with: InsightParams as any caller
\* of the service function can build them.
FetchParams ==
    { [auv_id |-> a, type |-> None, limit |-> z[1], summary |-> TRUE,
       summary_modes |-> m, window_minutes |-> z[2], timeseries_limit |-> z[3],
       timeseries_fields |-> <<"temperature_c">>] :
        a \in {None, "AUV-1"},
        m \in {<<"stats">>, <<"timeseries", "stats">>},
        z \in { <<20, 20, 30>>, <<0, 20, 30>>, <<500, 20, 30>>, <<1, 0, 30>>, <<2, 5000, 30>>,
                <<20, 20, 5>>, <<20, 1, 500>> } }

\* A writer or the pipeline may commit while no call is answered yet.
Unanswered == resp = NoDict \/ "pending" \in DOMAIN resp

\* fetch_insights called and returning, nothing committed meanwhile.
FetchCall ==
    /\ resp = NoDict
    /\ req' \in FetchParams
    /\ \E o \in fetch_insights(req', alerts, telemetry, now) :
         resp' = [status |-> 200, body |-> o.body, reads |-> o.reads]
    /\ UNCHANGED <<dbVars, callVars, envVars, dz, upVars, hubVars, taskVars, app>>

\* The stats section, first statement (line 191): each statement of the
\* session reads what is committed when it runs.
StatsFirstQuery ==
    /\ resp = NoDict
    /\ req' \in { p \in FetchParams : p.summary_modes = <<"stats">> /\ p.window_minutes = 20 }
    /\ resp' = [pending |-> StatsTotals(alerts, req', now - req'.window_minutes * 60)]
    /\ UNCHANGED <<dbVars, callVars, envVars, dz, upVars, hubVars, taskVars, app>>

\* The stats section, second statement (lines 193-201), and the entry built.
StatsSecondQuery ==
    /\ resp # NoDict /\ "pending" \in DOMAIN resp
    /\ resp' = [status |-> 200, reads |-> {"alerts"},
                stats |-> StatsEntry(req, resp.pending, StatsByType(alerts, req))]
    /\ UNCHANGED <<dbVars, callVars, envVars, dz, upVars, hubVars, taskVars, app, req>>

NextFetch ==
    \/ Unanswered /\ (WriterZone \/ WriterDead \/ Tick)
    \/ TelemetryStored
    \/ FetchCall \/ StatsFirstQuery \/ StatsSecondQuery

SpecFetch == InitQuiet /\ [][NextFetch]_vars

\* The alerts the filters of the parameters keep.
Kept(p) ==
    { k \in 1..Len(alerts) :
        /\ (p.auv_id # None /\ p.auv_id # "") => alerts[k].auv_id = p.auv_id
        /\ (p.type # None /\ p.type # "") => alerts[k].type = p.type }

\* C34: fetch_insights works with clamped values of all its integers: limit
\* in 1..100, timeseries_limit in 10..200 and window_minutes in 1..1440; the
\* alerts query, the timeseries query and the window start use the clamped
\* values.
C34_AllIntegersClamped ==
    (resp # NoDict /\ "body" \in DOMAIN resp) =>
      LET limit   == Clamp(req.limit, 1, 100)
          points  == Clamp(req.timeseries_limit, 10, 200)
          minutes == Clamp(req.window_minutes, 1, 1440)
          window_start == now - minutes * 60
          S == resp.body.summaries
      IN  /\ Len(resp.body.alerts)
               = IF Cardinality(Kept(req)) <= limit THEN Cardinality(Kept(req)) ELSE limit
          /\ "timeseries" \in DOMAIN S => Len(S.timeseries.points) <= points
          /\ "stats" \in DOMAIN S =>
               S.stats.alerts_in_window
                 = Cardinality({ k \in Kept(req) : alerts[k].started_at >= window_start })

\* C36: the stats summary is consistent even while alerts are inserted: the
\* counts of alerts_by_type add up to total_alerts, alerts_in_window is at most
\* total_alerts, and the counts are taken under the filters of the listing.
RECURSIVE SumOver(_, _)
SumOver(f, D) ==
    IF D = {} THEN 0
    ELSE LET d == CHOOSE d \in D : TRUE IN f[d] + SumOver(f, D \ {d})

C36_StatsConsistent ==
    (resp # NoDict /\ "stats" \in DOMAIN resp) =>
      /\ SumOver(resp.stats.alerts_by_type, DOMAIN resp.stats.alerts_by_type)
           = resp.stats.total_alerts
      /\ resp.stats.alerts_in_window <= resp.stats.total_alerts
      /\ DOMAIN resp.stats.alerts_by_type \subseteq { alerts[k].type : k \in Kept(req) }

\* The upstream task waits inside a broadcast for the lock it holds itself.
UpstreamHalted == bc["upstream"].i = -1

\* C35: a failed environmental alert write does not stop the pipeline: the
\* zone evaluation of the same record still runs (the record is not left, and
\* the task is not halted, before it), and the next record is read only after
\* it ran.
C35_AlertFailureDoesNotStop ==
    ("env_alert" \in failed /\ tid # NoTid) =>
      /\ pc \in {"env_broadcast", "zone", "zone_broadcast", "recv", "reconnect", "sleep", "connect"}
      /\ "zone" \notin Members(steps) => (pc \in {"env_broadcast", "zone"} /\ ~UpstreamHalted)

\* An active alert of the vehicle and kind is committed in the store.
ActiveAlert(v, kind) ==
    \E k \in 1..Len(alerts) :
        alerts[k].auv_id = v /\ alerts[k].type = kind /\ alerts[k].status = "active"

\* C37: every alert event handed to the hub corresponds to an active alert
\* row of that vehicle and kind, committed when the event is broadcast (rows
\* are never removed or resolved, so it is still there afterwards); no event
\* is broadcast for an alert whose write failed or was skipped.
C37_EventsHaveAlertRows ==
    \A k \in 1..Len(acquired) :
        LET e == acquired[k]
        IN  /\ e.type = "environmental_alert" => ActiveAlert(e.data.auv_id, "environmental")
            /\ e.type = "dead_auv_alert" => ActiveAlert(e.data.auv_id, "dead_auv")
            /\ e.type = "zone_alert" =>
                 ActiveAlert(telemetry[e.data.telemetry_id].auv_id, "zone_violation")

\* C38: the environmental section of a record runs only after the record's
\* point has been committed: when the ingest failed (no point id), neither
\* the threshold evaluation nor the environmental alert write nor the
\* environmental broadcast is performed for that record.
C38_NoPointNoEnvironmental ==
    "ingest" \in failed =>
      /\ tid = NoTid
      /\ Members(steps) \cap {"threshold", "env_alert", "env_alert_failed", "env_broadcast"} = {}

\* C39: the scanner reports a vehicle dead only if no record of it was
\* ingested during the last silence budget, whatever timestamps its records
\* carried.  Every record is ingested at a clock value of 0 or later, so while
\* the clock is below the budget each stored vehicle was heard less than the
\* budget ago: no tick may list a vehicle as overdue and no dead_auv alert
\* may exist.
C39_HeardRecentlyNeverDead ==
    now < DEAD_AUV_TIMEOUT_SECONDS =>
      /\ scan.dead_auvs = <<>>
      /\ \A k \in 1..Len(alerts) : alerts[k].type # "dead_auv"

\* The rows of the alerts table of a vehicle and kind, whatever their status.
RowsOf(v, kind) == { k \in 1..Len(alerts) : alerts[k].auv_id = v /\ alerts[k].type = kind }

====
